---- MODULE Spec2Model ----
(***************************************************************************)
(* lrmdns: an authoritative DNS server.                                    *)
(*                                                                         *)
(* The model covers the zone store and the zone-file parser (src/zone.rs), *)
(* the query processor (src/protocol.rs), the rate limiter                 *)
(* (src/ratelimit.rs), the UDP and TCP listeners and handlers              *)
(* (src/server.rs) and the reload of the zone store behind its lock        *)
(* (src/main.rs).  A domain name is the sequence of its                    *)
(* labels, left to right, the root being the empty sequence; an Option<T>  *)
(* is a sequence of length 0 (None) or 1 (Some).  An Instant is a whole    *)
(* number of seconds.                                                      *)
(***************************************************************************)
EXTENDS Integers, Sequences, FiniteSets, TLC

VARIABLES
    zones,      \* the ZoneStore behind QueryProcessor.zones: origin -> Zone
    serving,    \* FALSE while main() loads the zones, TRUE once the server runs
    query,      \* Option<Message>: the request last given to process_query
    response,   \* Option<Message>: what process_query returned for it
    calls,      \* the zone-store operations process_query invoked for it
    limiter,    \* Option<RateLimiterInner>: the server's rate limiter
    now,        \* the monotonic clock read by Instant::now()
    history,    \* the check_rate_limit calls made: address, instant, result
    metrics,    \* the counters of Metrics
    datagram,   \* Option: the datagram (data, addr) a UDP task is handling
    sent,       \* the datagrams that task has sent to addr
    tcp_config, \* Option<TcpConfig>: DnsServer.tcp_config
    conn,       \* Option: the task of an accepted TCP connection
    located,    \* Option: a name and what ZoneStore::find_zone returned for it
    listeners,  \* Option: the loops of run_udp and run_tcp and their tasks
    rw,         \* Option: the RwLock around the zone store and its tasks
    parse,      \* Option: a zone file and what the zone parser made of it
    threads,    \* Option: the threads that call Metrics and their snapshot
    denial      \* Option: a call of validate_nsec_denial and its result

dnsVars == <<zones, serving, query, response, calls>>
limiterVars == <<limiter, now, history>>
udpVars == <<datagram, sent>>
tcpVars == <<tcp_config, conn>>
netVars == <<limiterVars, metrics, udpVars, tcpVars>>
auxVars == <<located, listeners, rw, parse, threads, denial>>
vars == <<dnsVars, netVars, auxVars>>

(***************************** bounds **************************************)
\* add_record calls made on one zone before it is stored
MaxRecords == 3
\* zones held by the store
MaxZones == 2
\* questions carried by one request
MaxQuestions == 2
\* the configured rate limits run from 0 to MaxQps
MaxQps == 2
\* seconds the clock runs for
MaxTime == 3
\* check_rate_limit calls made on one limiter
MaxCalls == 4
\* datagrams received on the UDP socket
MaxDatagrams == 2
\* connections accepted, and errors logged, by the listeners
MaxConnections == 2
MaxLogged == 1
\* tasks that read the zone store, and SIGHUPs received
MaxTasks == 2
MaxReloads == 2
\* physical lines of a zone file
MaxLines == 3
\* calls of Metrics made by the threads
MaxOps == 2
\* records given to validate_nsec_denial
MaxNsec == 2
\* the configured idle timeout in seconds and queries per connection
IdleTimeout == 2
MaxQueriesPerConnection == 2
\* seconds the clock of a connection runs past its idle timeout
MaxLate == 1

(***************************** Option **************************************)
None == <<>>
Some(v) == <<v>>
is_some(o) == o # None
is_none(o) == o = None
unwrap(o) == o[1]

(***************************** names ***************************************)
num_labels(name) == Len(name)

\* Name::zone_of: self is a suffix of name
zone_of(origin, name) ==
    /\ Len(origin) <= Len(name)
    /\ SubSeq(name, Len(name) - Len(origin) + 1, Len(name)) = origin

EX == <<"ex">>
W_EX == <<"w", "ex">>
C_EX == <<"c", "ex">>
D_EX == <<"d", "ex">>
X_EX == <<"x", "ex">>
B_W_EX == <<"b", "w", "ex">>
NS_EX == <<"ns", "ex">>
STAR_EX == <<"*", "ex">>
W_O == <<"w", "o">>

(***************************** records *************************************)
RecordTtl == 3600
SoaMinimum == 86400

\* Record::from_rdata(name, ttl, rdata): the record type is that of the rdata
from_rdata(name, ttl, rtype, rdata) ==
    [name |-> name, ttl |-> ttl, rtype |-> rtype, rdata |-> rdata]

SoaOf(origin) ==
    [mname |-> NS_EX, rname |-> <<"admin">> \o origin, serial |-> 1,
     refresh |-> 7200, retry |-> 3600, expire |-> 1209600,
     minimum |-> SoaMinimum]

\* the records handed to add_record
RecordPool ==
    { from_rdata(W_EX, RecordTtl, "A", <<"192.0.2.1">>),
      from_rdata(STAR_EX, RecordTtl, "A", <<"192.0.2.100">>),
      from_rdata(EX, RecordTtl, "NS", NS_EX),
      from_rdata(C_EX, RecordTtl, "CNAME", W_EX),
      from_rdata(D_EX, RecordTtl, "CNAME", C_EX),
      from_rdata(STAR_EX, RecordTtl, "CNAME", W_EX),
      from_rdata(C_EX, RecordTtl, "CNAME", W_O),
      from_rdata(W_O, RecordTtl, "A", <<"198.51.100.7">>) }

(***************************** Zone ****************************************)
Zone_new(origin, soa) == [origin |-> origin, soa |-> soa, records |-> <<>>]

\* records.entry(name).or_default().entry(rtype).or_default().push(record)
add_record(zone, record) ==
    LET name == record.name
        rtype == record.rtype
        byType == IF name \in DOMAIN zone.records
                  THEN zone.records[name] ELSE <<>>
        vec == IF rtype \in DOMAIN byType THEN byType[rtype] ELSE <<>>
        byType2 == [t \in DOMAIN byType \cup {rtype} |->
                      IF t = rtype THEN Append(vec, record) ELSE byType[t]]
    IN [zone EXCEPT !.records =
            [n \in DOMAIN zone.records \cup {name} |->
                IF n = name THEN byType2 ELSE zone.records[n]]]

\* self.records.get(name)?.get(&rtype)
lookup(zone, name, rtype) ==
    IF name \in DOMAIN zone.records
    THEN IF rtype \in DOMAIN zone.records[name]
         THEN Some(zone.records[name][rtype])
         ELSE None
    ELSE None

contains_name(zone, name) == name \in DOMAIN zone.records

\* the loop body of lookup_wildcard for one value of skip, and the rest of
\* the range 1..labels.len()
RECURSIVE wildcard_from(_, _, _, _)
wildcard_from(zone, labels, rtype, skip) ==
    IF skip >= Len(labels) THEN None
    ELSE LET wildcard_name == <<"*">> \o SubSeq(labels, skip + 1, Len(labels))
             records == lookup(zone, wildcard_name, rtype)
         IN IF is_some(records) THEN records
            ELSE wildcard_from(zone, labels, rtype, skip + 1)

lookup_wildcard(zone, name, rtype) == wildcard_from(zone, name, rtype, 1)

\* RData::SOA(SOA::new(mname, rname, serial, refresh, retry, expire, minimum))
SOA_new(soa) ==
    <<soa.mname, soa.rname, soa.serial, soa.refresh, soa.retry, soa.expire,
      soa.minimum>>

\* get_soa_record taking the record's TTL from the wrong SOA field
get_soa_record_RefreshTtl(zone) ==
    from_rdata(zone.origin, zone.soa.refresh, "SOA", SOA_new(zone.soa))

get_soa_record(zone) ==
    from_rdata(zone.origin, zone.soa.minimum, "SOA", SOA_new(zone.soa))

\* the keys (name, type) of the two-level map self.records
RecordKeys(zone) ==
    UNION {{<<n, t>> : t \in DOMAIN zone.records[n]} :
              n \in DOMAIN zone.records}

\* the orders in which the nested HashMaps may yield their entries: every
\* key once, the keys of one name together
MapOrders(zone) ==
    LET keys == RecordKeys(zone)
        n == Cardinality(keys)
    IN {o \in [1..n -> keys] :
          /\ \A i, j \in 1..n : o[i] = o[j] => i = j
          /\ \A i, j, k \in 1..n :
                (i < j /\ j < k /\ o[i][1] = o[k][1]) => o[j][1] = o[i][1]}

\* the records pushed by the two inner loops of get_all_records when the
\* maps are iterated in the given order of keys
RECURSIVE records_in_order(_, _)
records_in_order(zone, order) ==
    IF order = <<>> THEN <<>>
    ELSE zone.records[Head(order)[1]][Head(order)[2]]
         \o records_in_order(zone, Tail(order))

\* get_all_records that leaves out the closing SOA
get_all_records_NoClosingSoa(zone, order) ==
    <<get_soa_record(zone)>> \o records_in_order(zone, order)

\* Zone::get_all_records, the HashMaps yielding their entries in `order`
get_all_records(zone, order) ==
    <<get_soa_record(zone)>> \o records_in_order(zone, order)
        \o <<get_soa_record(zone)>>

(***************************** ZoneStore ***********************************)
ZoneStore_new == <<>>

\* self.zones.insert(zone.origin.clone(), zone)
add_zone(store, zone) ==
    [o \in DOMAIN store \cup {zone.origin} |->
        IF o = zone.origin THEN zone ELSE store[o]]

\* find_zone's loop without the zone_of test
RECURSIVE find_zone_loop_NoSuffixTest(_, _, _, _, _)
find_zone_loop_NoSuffixTest(store, rest, name, best_match, best_match_labels) ==
    IF rest = {} THEN best_match
    ELSE LET o == CHOOSE x \in rest : TRUE
             zone == store[o]
             labels == num_labels(zone.origin)
             better == labels > best_match_labels
         IN find_zone_loop_NoSuffixTest(store, rest \ {o}, name,
                           IF better THEN Some(zone) ELSE best_match,
                           IF better THEN labels ELSE best_match_labels)

\* the loop of find_zone over self.zones.values(), in the map's order
RECURSIVE find_zone_loop(_, _, _, _, _)
find_zone_loop(store, rest, name, best_match, best_match_labels) ==
    IF rest = {} THEN best_match
    ELSE LET o == CHOOSE x \in rest : TRUE
             zone == store[o]
             labels == num_labels(zone.origin)
             better == zone_of(zone.origin, name) /\ labels > best_match_labels
         IN find_zone_loop(store, rest \ {o}, name,
                           IF better THEN Some(zone) ELSE best_match,
                           IF better THEN labels ELSE best_match_labels)

find_zone(store, name) ==
    IF name \in DOMAIN store THEN Some(store[name])
    ELSE find_zone_loop(store, DOMAIN store, name, None, 0)

(***************************** Message *************************************)
\* hickory_proto::op::Message::new(): a query with id 0 and empty sections
Message_new ==
    [id |-> 0, message_type |-> "Query", op_code |-> "Query",
     authoritative |-> FALSE, truncation |-> FALSE,
     recursion_desired |-> FALSE, recursion_available |-> FALSE,
     response_code |-> "NoError", queries |-> <<>>, answers |-> <<>>,
     name_servers |-> <<>>, additionals |-> <<>>, edns |-> None]

Query_query(name, query_type) == [name |-> name, query_type |-> query_type]

\* hickory_proto::op::Edns::new(), then the three setters process_query uses
Edns_new == [max_payload |-> 512, version |-> 0, dnssec_ok |-> FALSE]

\* a process_query result: the message built so far and the zone-store
\* operations invoked while building it
Outcome(msg, ops) == [msg |-> msg, calls |-> ops]

(***************************** QueryProcessor ******************************)
\* "Copy query ID and set response flags"
ResponseFraming(q) ==
    [Message_new EXCEPT
        !.id = q.id,
        !.message_type = "Response",
        !.op_code = "Query",
        !.recursion_desired = q.recursion_desired,
        !.recursion_available = FALSE]

\* the lookup asking the wildcards before the exact name
LookupResult_WildcardFirst(zone, qname, qtype, name_exists) ==
    IF is_some(lookup_wildcard(zone, qname, qtype))
    THEN [found |-> lookup_wildcard(zone, qname, qtype),
          op |-> "lookup_wildcard"]
    ELSE [found |-> lookup(zone, qname, qtype), op |-> "lookup"]

\* "Lookup the requested record type": the records found and the zone
\* operation that was asked for them
LookupResult(zone, qname, qtype, name_exists) ==
    IF name_exists
    THEN [found |-> lookup(zone, qname, qtype), op |-> "lookup"]
    ELSE [found |-> lookup_wildcard(zone, qname, qtype),
          op |-> "lookup_wildcard"]

\* "Check if there's a CNAME record for this name (exact or wildcard)"
CnameResult(zone, qname, name_exists) ==
    IF name_exists
    THEN [found |-> lookup(zone, qname, "CNAME"), op |-> "lookup"]
    ELSE [found |-> lookup_wildcard(zone, qname, "CNAME"),
          op |-> "lookup_wildcard"]

\* what one CNAME record adds to the answer section: itself, then the
\* records of (target, qtype) in the same zone
ChaseTarget(zone, cname_record, qtype) ==
    LET target == cname_record.rdata
        target_records == lookup(zone, target, qtype)
    IN <<cname_record>> \o
       (IF is_some(target_records) THEN unwrap(target_records) ELSE <<>>)

\* "for cname_record in cname_records"
RECURSIVE ChaseCnames(_, _, _)
ChaseCnames(zone, cname_records, qtype) ==
    IF cname_records = <<>> THEN <<>>
    ELSE ChaseTarget(zone, Head(cname_records), qtype)
         \o ChaseCnames(zone, Tail(cname_records), qtype)

\* the negative answer that never says NXDOMAIN
NegativeAnswer_NoErrorAlways(zone, resp, name_exists) ==
    [resp EXCEPT
        !.response_code = "NoError",
        !.name_servers = Append(@, get_soa_record(zone))]

\* the negative answers: NODATA when the name exists, NXDOMAIN otherwise,
\* each with the SOA in the authority section
NegativeAnswer(zone, resp, name_exists) ==
    [resp EXCEPT
        !.response_code = IF name_exists THEN "NoError" ELSE "NXDomain",
        !.name_servers = Append(@, get_soa_record(zone))]

\* the match on lookup_result
Resolve(zone, qname, qtype, resp) ==
    LET name_exists == contains_name(zone, qname)
        lookup_result == LookupResult(zone, qname, qtype, name_exists)
        cname_result == CnameResult(zone, qname, name_exists)
    IN IF is_some(lookup_result.found)
       THEN Outcome([resp EXCEPT
                        !.answers = @ \o unwrap(lookup_result.found),
                        !.response_code = "NoError"],
                    {"contains_name", lookup_result.op})
       ELSE IF is_some(cname_result.found)
       THEN Outcome([resp EXCEPT
                        !.answers =
                            @ \o ChaseCnames(zone, unwrap(cname_result.found),
                                             qtype),
                        !.response_code = "NoError"],
                    {"contains_name", lookup_result.op, cname_result.op,
                     "lookup"})
       ELSE Outcome(NegativeAnswer(zone, resp, name_exists),
                    {"contains_name", lookup_result.op, cname_result.op,
                     "get_soa_record"})

\* the apex NS records added to every NOERROR response, answered or not
AuthorityNS_AnyNoError(zone, resp) ==
    IF resp.response_code = "NoError"
    THEN LET ns_records == lookup(zone, zone.origin, "NS")
         IN IF is_some(ns_records)
            THEN [resp EXCEPT !.name_servers = @ \o unwrap(ns_records)]
            ELSE resp
    ELSE resp

\* "Add NS records in authority section for positive responses"
AuthorityNS(zone, resp) ==
    IF resp.response_code = "NoError" /\ resp.answers # <<>>
    THEN LET ns_records == lookup(zone, zone.origin, "NS")
         IN IF is_some(ns_records)
            THEN [resp EXCEPT !.name_servers = @ \o unwrap(ns_records)]
            ELSE resp
    ELSE resp

\* "Add EDNS0 support if client requested it"
AttachEdns(q, resp) ==
    IF is_some(q.edns)
    THEN LET dnssec_ok == unwrap(q.edns).dnssec_ok
         IN [resp EXCEPT !.edns =
                Some([Edns_new EXCEPT
                        !.max_payload = 4096,
                        !.version = 0,
                        !.dnssec_ok = IF dnssec_ok THEN TRUE ELSE @])]
    ELSE resp

\* the authoritative part of process_query, from find_zone on
AuthoritativeLookup(store, q, resp) ==
    LET question == Head(q.queries)
        qname == question.name
        qtype == question.query_type
        found == find_zone(store, qname)
    IN IF is_none(found)
       THEN Outcome([resp EXCEPT !.response_code = "Refused"], {"find_zone"})
       ELSE LET zone == unwrap(found)
                resolved == Resolve(zone, qname, qtype,
                                    [resp EXCEPT !.authoritative = TRUE])
                positive == resolved.msg.response_code = "NoError"
                            /\ resolved.msg.answers # <<>>
            IN Outcome(AttachEdns(q, AuthorityNS(zone, resolved.msg)),
                       {"find_zone"} \cup resolved.calls
                           \cup (IF positive THEN {"lookup"} ELSE {}))

\* process_query without the opcode test
process_query_OpcodeUnchecked(store, q) ==
    LET resp == ResponseFraming(q)
    IN IF q.queries # <<>> /\ Head(q.queries).query_type = "AXFR"
       THEN Outcome([resp EXCEPT
                        !.queries = Append(@, Head(q.queries)),
                        !.authoritative = TRUE], {})
       ELSE IF q.queries = <<>>
       THEN Outcome([resp EXCEPT !.response_code = "FormErr"], {})
       ELSE AuthoritativeLookup(store, q,
                [resp EXCEPT !.queries = Append(@, Head(q.queries))])

process_query(store, q) ==
    LET resp == ResponseFraming(q)
    IN IF q.op_code # "Query"
       THEN Outcome([resp EXCEPT !.response_code = "NotImp"], {})
       ELSE IF q.queries # <<>> /\ Head(q.queries).query_type = "AXFR"
       THEN Outcome([resp EXCEPT
                        !.queries = Append(@, Head(q.queries)),
                        !.authoritative = TRUE], {})
       ELSE IF q.queries = <<>>
       THEN Outcome([resp EXCEPT !.response_code = "FormErr"], {})
       ELSE AuthoritativeLookup(store, q,
                [resp EXCEPT !.queries = Append(@, Head(q.queries))])

(***************************** wire format *********************************)
\* A byte buffer holding a DNS message is modelled as the twelve octets of
\* its header, the sections that follow them, and its length in octets; a
\* buffer cut short holds fewer header octets or fewer entries than its
\* header counts.
OpCodes == <<"Query", "IQuery", "Status", "Reserved", "Notify", "Update">>
RCodes == <<"NoError", "FormErr", "ServFail", "NXDomain", "NotImp", "Refused">>
OpCodeNumber(op) == (CHOOSE i \in DOMAIN OpCodes : OpCodes[i] = op) - 1
RCodeNumber(rc) == (CHOOSE i \in DOMAIN RCodes : RCodes[i] = rc) - 1
Bit(b) == IF b THEN 1 ELSE 0

\* octets of a TXT record's character-strings, by the text it holds
TxtOctets ==
    [small |-> 100, medium |-> 600, large |-> 1500, huge |-> 5000,
     vast |-> 30000, giant |-> 40000, maximal |-> 65500]

\* a name on the wire: one length octet per label, the labels, the root
RECURSIVE name_len(_)
name_len(name) ==
    IF name = <<>> THEN 1 ELSE 1 + Len(Head(name)) + name_len(Tail(name))

rdata_len(record) ==
    CASE record.rtype = "A" -> 4
      [] record.rtype \in {"NS", "CNAME"} -> name_len(record.rdata)
      [] record.rtype = "SOA" ->
            name_len(record.rdata[1]) + name_len(record.rdata[2]) + 20
      [] record.rtype = "TXT" -> TxtOctets[record.rdata[1]]

\* owner, type, class, TTL, RDLENGTH, RDATA
record_len(record) == name_len(record.name) + 10 + rdata_len(record)

RECURSIVE records_len(_)
records_len(records) ==
    IF records = <<>> THEN 0
    ELSE record_len(Head(records)) + records_len(Tail(records))

RECURSIVE queries_len(_)
queries_len(queries) ==
    IF queries = <<>> THEN 0
    ELSE name_len(Head(queries).name) + 4 + queries_len(Tail(queries))

\* the length of msg.to_bytes(), names written in full; an OPT record
\* without options takes 11 octets
WireLen(msg) ==
    12 + queries_len(msg.queries) + records_len(msg.answers)
       + records_len(msg.name_servers) + records_len(msg.additionals)
       + (IF is_some(msg.edns) THEN 11 ELSE 0)

header_octets(msg) ==
    << msg.id \div 256, msg.id % 256,
       128 * Bit(msg.message_type = "Response")
         + 8 * OpCodeNumber(msg.op_code) + 4 * Bit(msg.authoritative)
         + 2 * Bit(msg.truncation) + Bit(msg.recursion_desired),
       128 * Bit(msg.recursion_available) + RCodeNumber(msg.response_code),
       0, Len(msg.queries), 0, Len(msg.answers), 0, Len(msg.name_servers),
       0, Len(msg.additionals) + Bit(is_some(msg.edns)) >>

Sections(msg) ==
    [queries |-> msg.queries, answers |-> msg.answers,
     name_servers |-> msg.name_servers, additionals |-> msg.additionals,
     edns |-> msg.edns]

\* the most octets the encoder behind Message::to_bytes puts in a buffer
u16_MAX == 2^16 - 1

\* an encoder that writes every record, whatever room is left
emit_all_NoLimit(records, room) == records

\* the records of a section the encoder writes: it stops at the first
\* record that does not fit in the room left
RECURSIVE emit_all(_, _)
emit_all(records, room) ==
    IF records = <<>> \/ record_len(Head(records)) > room THEN <<>>
    ELSE <<Head(records)>>
         \o emit_all(Tail(records), room - record_len(Head(records)))

\* the sections the encoder writes one after the other, each in the room
\* the ones before it left
RECURSIVE emit_sections(_, _)
emit_sections(sections, room) ==
    IF sections = <<>> THEN <<>>
    ELSE <<emit_all(Head(sections), room)>>
         \o emit_sections(Tail(sections),
                          room - records_len(emit_all(Head(sections), room)))

\* the message the octets stand for, given the sections written: a section
\* cut short, or an OPT record left out, sets TC
emitted(msg, s, room) ==
    [msg EXCEPT !.answers = s[1], !.name_servers = s[2],
                !.additionals = s[3],
                !.edns = IF room < 11 THEN None ELSE @,
                !.truncation =
                    \/ @
                    \/ s # <<msg.answers, msg.name_servers, msg.additionals>>
                    \/ is_some(msg.edns) /\ room < 11]

\* Message::emit
emit(msg, s) ==
    emitted(msg, s, u16_MAX - 12 - queries_len(msg.queries)
                      - records_len(s[1] \o s[2] \o s[3]))

\* the octets of a message written in full
encode(msg) ==
    [header |-> header_octets(msg), body |-> Sections(msg),
     len |-> WireLen(msg)]

\* Message::to_bytes
to_bytes(msg) ==
    encode(emit(msg, emit_sections(
                         <<msg.answers, msg.name_servers, msg.additionals>>,
                         u16_MAX - 12 - queries_len(msg.queries))))

\* Message::from_bytes: None stands for Err
from_bytes(data) ==
    LET h == data.header
        b == data.body
    IN IF Len(h) < 12 THEN None
       ELSE IF \/ h[6] # Len(b.queries)
               \/ h[8] # Len(b.answers)
               \/ h[10] # Len(b.name_servers)
               \/ h[12] # Len(b.additionals) + Bit(is_some(b.edns))
       THEN None
       ELSE Some([id |-> h[1] * 256 + h[2],
                  message_type |->
                      IF h[3] \div 128 = 1 THEN "Response" ELSE "Query",
                  op_code |-> OpCodes[((h[3] \div 8) % 16) + 1],
                  authoritative |-> (h[3] \div 4) % 2 = 1,
                  truncation |-> (h[3] \div 2) % 2 = 1,
                  recursion_desired |-> h[3] % 2 = 1,
                  recursion_available |-> h[4] \div 128 = 1,
                  response_code |-> RCodes[(h[4] % 16) + 1],
                  queries |-> b.queries, answers |-> b.answers,
                  name_servers |-> b.name_servers,
                  additionals |-> b.additionals, edns |-> b.edns])

\* u16::from_be_bytes([data[0], data[1]])
id_from_be_bytes(data) == data.header[1] * 256 + data.header[2]

(***************************** RateLimiter **********************************)
Window == 1
CleanupInterval == 60

\* the client addresses
Addrs == {"127.0.0.1", "127.0.0.2"}

\* RateLimiter::new(max_qps) at instant t
RateLimiter_new(max_qps, t) ==
    [clients |-> <<>>, max_qps |-> max_qps, window |-> Window,
     last_cleanup |-> t]

\* queries.retain(|&timestamp| now.duration_since(timestamp) < window)
retain(queries, t, window) ==
    SelectSeq(queries, LAMBDA timestamp : t - timestamp < window)

\* a cleanup that forgets every client
cleanup_Everyone(inner, t) == [inner EXCEPT !.clients = <<>>]

\* RateLimiterInner::cleanup at instant t
cleanup(inner, t) ==
    [inner EXCEPT !.clients =
        [a \in {c \in DOMAIN inner.clients :
                    retain(inner.clients[c], t, inner.window) # <<>>} |->
            retain(inner.clients[a], t, inner.window)]]

\* RateLimiter::new(max_qps) at instant t of a clock that ticks hz times a
\* second
RateLimiter_ticking(max_qps, t, hz) ==
    [RateLimiter_new(max_qps, t) EXCEPT !.window = Window * hz]

\* Duration::from_secs(secs) in the ticks of the limiter's clock, of which
\* window holds Duration::from_secs(1)
from_secs(inner, secs) == secs * (inner.window \div Window)

\* "Cleanup old entries every 60 seconds"
MaybeCleanup(inner, t) ==
    IF t - inner.last_cleanup > from_secs(inner, CleanupInterval)
    THEN [cleanup(inner, t) EXCEPT !.last_cleanup = t]
    ELSE inner

\* check_rate_limit that keeps the timestamps outside the window
check_rate_limit_NoRetain(inner0, addr, t) ==
    LET inner == MaybeCleanup(inner0, t)
        queries == IF addr \in DOMAIN inner.clients
                   THEN inner.clients[addr] ELSE <<>>
        allowed == ~(Len(queries) >= inner.max_qps)
        pushed == IF allowed THEN Append(queries, t) ELSE queries
    IN [inner |-> [inner EXCEPT !.clients =
                      [a \in DOMAIN inner.clients \cup {addr} |->
                          IF a = addr THEN pushed ELSE inner.clients[a]]],
        allowed |-> allowed]

\* check_rate_limit that records the instant of a denied call too
check_rate_limit_PushWhenDenied(inner0, addr, t) ==
    LET inner == MaybeCleanup(inner0, t)
        entry == IF addr \in DOMAIN inner.clients
                 THEN inner.clients[addr] ELSE <<>>
        queries == retain(entry, t, inner.window)
        allowed == ~(Len(queries) >= inner.max_qps)
    IN [inner |-> [inner EXCEPT !.clients =
                      [a \in DOMAIN inner.clients \cup {addr} |->
                          IF a = addr THEN Append(queries, t)
                          ELSE inner.clients[a]]],
        allowed |-> allowed]

\* RateLimiter::check_rate_limit(addr) at instant t: the limiter after the
\* call and the value returned
check_rate_limit(inner0, addr, t) ==
    LET inner == MaybeCleanup(inner0, t)
        entry == IF addr \in DOMAIN inner.clients
                 THEN inner.clients[addr] ELSE <<>>
        queries == retain(entry, t, inner.window)
        allowed == ~(Len(queries) >= inner.max_qps)
        pushed == IF allowed THEN Append(queries, t) ELSE queries
    IN [inner |-> [inner EXCEPT !.clients =
                      [a \in DOMAIN inner.clients \cup {addr} |->
                          IF a = addr THEN pushed ELSE inner.clients[a]]],
        allowed |-> allowed]

(***************************** Metrics *************************************)
\* Metrics::new(): the counters of queries, rate limiting, errors and TCP
\* connections (the per-code, per-type and latency counters are left out)
Metrics_new ==
    [total_queries |-> 0, udp_queries |-> 0, tcp_queries |-> 0,
     rate_limited |-> 0, errors |-> 0, tcp_connections |-> 0,
     tcp_queries_per_connection |-> 0, tcp_connection_timeouts |-> 0]

record_query(m, protocol) ==
    [m EXCEPT !.total_queries = @ + 1,
              !.udp_queries = IF protocol = "Udp" THEN @ + 1 ELSE @,
              !.tcp_queries = IF protocol = "Tcp" THEN @ + 1 ELSE @]
record_rate_limited(m) == [m EXCEPT !.rate_limited = @ + 1]
record_error(m) == [m EXCEPT !.errors = @ + 1]
record_tcp_connection(m) == [m EXCEPT !.tcp_connections = @ + 1]
record_tcp_connection_closed(m, queries_handled) ==
    [m EXCEPT !.tcp_queries_per_connection = @ + queries_handled]
record_tcp_connection_timeout(m) ==
    [m EXCEPT !.tcp_connection_timeouts = @ + 1]

(***************************** UDP handler *********************************)
MAX_DNS_PACKET_SIZE == 512

\* a limiter check that records the call and lets every query go on
RateLimitCheck_AlwaysAllowed(lim, addr, t) ==
    IF is_some(lim)
    THEN [limiter |-> Some(check_rate_limit(unwrap(lim), addr, t).inner),
          allowed |-> TRUE]
    ELSE [limiter |-> lim, allowed |-> TRUE]

\* the limiter check at the head of both handlers: the limiter afterwards
\* and whether the query may go on
RateLimitCheck(lim, addr, t) ==
    IF is_some(lim)
    THEN LET r == check_rate_limit(unwrap(lim), addr, t)
         IN [limiter |-> Some(r.inner), allowed |-> r.allowed]
    ELSE [limiter |-> lim, allowed |-> TRUE]

\* the response built without a decoded request: the id is set only when
\* the input holds two octets
BareResponse(data, response_code) ==
    [Message_new EXCEPT
        !.id = IF data.len >= 2 THEN id_from_be_bytes(data) ELSE @,
        !.message_type = "Response",
        !.response_code = response_code]

\* "Determine max UDP packet size (EDNS0 or standard)"
max_udp_size(resp) ==
    IF is_some(resp.edns) THEN unwrap(resp.edns).max_payload
    ELSE MAX_DNS_PACKET_SIZE

\* "Create truncated response": the message sent in place of a response
\* that does not fit
Truncated(resp, max) ==
    LET truncated == [resp EXCEPT !.truncation = TRUE]
        no_answers == [truncated EXCEPT !.answers = <<>>]
        no_name_servers == [no_answers EXCEPT !.name_servers = <<>>]
        no_additionals == [no_name_servers EXCEPT !.additionals = <<>>]
    IN IF truncated.answers # <<>> /\ WireLen(no_answers) <= max
       THEN no_answers
       ELSE IF no_answers.name_servers # <<>>
               /\ WireLen(no_name_servers) <= max
       THEN no_name_servers
       ELSE IF no_name_servers.additionals # <<>>
               /\ WireLen(no_additionals) <= max
       THEN no_additionals
       ELSE no_additionals   \* "send it anyway with TC flag"

\* what handle_udp_query puts on the socket for a response
UdpReply(resp) ==
    IF WireLen(resp) > max_udp_size(resp)
    THEN Truncated(resp, max_udp_size(resp))
    ELSE resp

\* handle_udp_query(data, addr, ...) at instant t: the datagrams sent, the
\* decoded request and the processor's response when there are any, and
\* the limiter and the metrics afterwards
handle_udp_query(data, addr, store, lim, m, t) ==
    LET check == RateLimitCheck(lim, addr, t)
        decoded == from_bytes(data)
        out == process_query(store, unwrap(decoded))
    IN IF ~check.allowed
       THEN [sent |-> <<to_bytes(BareResponse(data, "Refused"))>>,
             query |-> None, response |-> None, calls |-> {},
             limiter |-> check.limiter, metrics |-> record_rate_limited(m)]
       ELSE IF is_none(decoded)
       THEN [sent |-> <<to_bytes(BareResponse(data, "FormErr"))>>,
             query |-> None, response |-> None, calls |-> {},
             limiter |-> check.limiter, metrics |-> record_error(m)]
       ELSE [sent |-> <<to_bytes(UdpReply(out.msg))>>,
             query |-> decoded, response |-> Some(out.msg),
             calls |-> out.calls,
             limiter |-> check.limiter, metrics |-> record_query(m, "Udp")]

(***************************** TCP handler *********************************)
MAX_TCP_DNS_PACKET_SIZE == 65535
DefaultIdleTimeout == 30
DefaultMaxQueries == 100

\* tcp_config.as_ref().map(|c| c.idle_timeout).unwrap_or(30)
idle_timeout_secs(cfg) ==
    IF is_some(cfg) THEN unwrap(cfg).idle_timeout ELSE DefaultIdleTimeout

\* tcp_config.as_ref().map(|c| c.max_queries_per_connection).unwrap_or(100)
max_queries(cfg) ==
    IF is_some(cfg) THEN unwrap(cfg).max_queries_per_connection
    ELSE DefaultMaxQueries

\* the task of one accepted connection: where it stands (awaiting a length
\* prefix, awaiting a message, holding a message, returned), its locals,
\* what it wrote for the request in hand, and what it told the metrics
\* about its end
Connection_new(addr) ==
    [pc |-> "length", addr |-> addr, queries_handled |-> 0, msg_len |-> 0,
     msg_buf |-> None, waiting_since |-> 0, requests_read |-> 0,
     responses_written |-> 0, written |-> <<>>, exit |-> "open",
     closed_recorded |-> <<>>, timeouts_recorded |-> 0]

\* the task returns; recorded tells whether it called
\* record_tcp_connection_closed(queries_handled) first
Returned(c, exit, recorded) ==
    [c EXCEPT !.pc = "closed", !.exit = exit,
              !.closed_recorded =
                  IF recorded THEN Append(@, c.queries_handled) ELSE @]

\* a loop head without the test of the query counter
LoopHead_NoCap(c, cfg, m, t) ==
    [conn |-> [c EXCEPT !.pc = "length", !.waiting_since = t], metrics |-> m]

\* the head of the loop: "Check if we've hit the max queries limit", else
\* start reading the length prefix under the idle timeout
LoopHead(c, cfg, m, t) ==
    IF c.queries_handled >= max_queries(cfg)
    THEN [conn |-> Returned(c, "max_queries", TRUE),
          metrics |-> record_tcp_connection_closed(m, c.queries_handled)]
    ELSE [conn |-> [c EXCEPT !.pc = "length", !.waiting_since = t],
          metrics |-> m]

\* a message as it goes on the stream: (len as u16).to_be_bytes(), then
\* the message
length_prefixed(buf) ==
    [prefix |-> buf.len % (u16_MAX + 1), data |-> Some(buf)]

Frame(msg) == length_prefixed(to_bytes(msg))

\* write_all calls that report success with the last message left out
WriteAll_LastBodyLost(msgs, fail) ==
    [written |->
        [i \in 1..Len(msgs) |->
            IF i < Len(msgs) THEN Frame(msgs[i])
            ELSE [prefix |-> Frame(msgs[i]).prefix, data |-> None]],
     ok |-> TRUE]

\* the write_all calls for msgs, two per message; fail, when Some(k), is
\* the number of calls that succeed before one returns an error
WriteAll(msgs, fail) ==
    LET n == Len(msgs)
        k == IF is_some(fail) /\ unwrap(fail) < 2 * n
             THEN unwrap(fail) ELSE 2 * n
        whole == k \div 2
    IN [written |->
            [i \in 1..whole |-> Frame(msgs[i])]
            \o (IF k % 2 = 1
                THEN <<[prefix |-> Frame(msgs[whole + 1]).prefix,
                        data |-> None]>>
                ELSE <<>>),
        ok |-> k = 2 * n]

\* from the length prefix read to the read of the message: the length
\* test and the rate-limit check
ReadLength(c, msg_len, lim, m, t, fail) ==
    IF msg_len = 0 \/ msg_len > MAX_TCP_DNS_PACKET_SIZE
    THEN [conn |-> Returned([c EXCEPT !.written = <<>>], "bad_length", FALSE),
          metrics |-> record_error(m), limiter |-> lim]
    ELSE LET check == RateLimitCheck(lim, c.addr, t)
             refused == [Message_new EXCEPT
                            !.message_type = "Response",
                            !.response_code = "Refused"]
             w == WriteAll(<<refused>>, fail)
         IN IF ~check.allowed
            THEN [conn |->
                     Returned([c EXCEPT
                                 !.msg_len = msg_len,
                                 !.written = w.written,
                                 !.responses_written =
                                     IF w.ok THEN @ + 1 ELSE @],
                              IF w.ok THEN "rate_limited" ELSE "write_error",
                              FALSE),
                  metrics |-> record_rate_limited(m),
                  limiter |-> check.limiter]
            ELSE [conn |-> [c EXCEPT !.pc = "message",
                                     !.msg_len = msg_len,
                                     !.waiting_since = t,
                                     !.written = <<>>],
                  metrics |-> m, limiter |-> check.limiter]

\* one message of an AXFR stream
AxfrMessage(q, question, record) ==
    [Message_new EXCEPT
        !.id = q.id,
        !.message_type = "Response",
        !.op_code = "Query",
        !.authoritative = TRUE,
        !.queries = <<question>>,
        !.answers = <<record>>]

RECURSIVE AxfrMessages(_, _, _)
AxfrMessages(q, question, records) ==
    IF records = <<>> THEN <<>>
    ELSE <<AxfrMessage(q, question, Head(records))>>
         \o AxfrMessages(q, question, Tail(records))

\* "Not authoritative for this zone"
AxfrRefused(q, question) ==
    [Message_new EXCEPT
        !.id = q.id,
        !.message_type = "Response",
        !.response_code = "Refused",
        !.queries = <<question>>]

\* the task returns after writing msgs
WriteAndReturn(c, msgs, fail, exit) ==
    LET w == WriteAll(msgs, fail)
    IN Returned([c EXCEPT !.written = w.written,
                          !.responses_written = IF w.ok THEN @ + 1 ELSE @],
                IF w.ok THEN exit ELSE "write_error", FALSE)

\* from the message read to the next read: decode, then FORMERR, the zone
\* transfer or the processor, and the writes; order is the order in which
\* the HashMaps of the zone yield their entries
Respond(c, store, cfg, m, t, fail, order) ==
    LET data == unwrap(c.msg_buf)
        decoded == from_bytes(data)
        q == unwrap(decoded)
        is_axfr == q.queries # <<>> /\ Head(q.queries).query_type = "AXFR"
        question == Head(q.queries)
        found == find_zone(store, question.name)
        out == process_query(store, q)
        w == WriteAll(<<out.msg>>, fail)
        next == LoopHead([c EXCEPT !.queries_handled = @ + 1,
                                   !.responses_written = @ + 1,
                                   !.written = w.written],
                         cfg, record_query(m, "Tcp"), t)
    IN IF is_none(decoded)
       THEN [conn |-> WriteAndReturn(c, <<BareResponse(data, "FormErr")>>,
                                     fail, "formerr"),
             metrics |-> record_error(m),
             query |-> None, response |-> None, calls |-> {}]
       ELSE IF is_axfr /\ is_some(found)
       THEN [conn |->
                WriteAndReturn(c,
                    AxfrMessages(q, question,
                                 get_all_records(unwrap(found), order)),
                    fail, "axfr"),
             metrics |-> record_query(m, "Tcp"),
             query |-> decoded, response |-> None, calls |-> {"find_zone"}]
       ELSE IF is_axfr
       THEN [conn |-> WriteAndReturn(c, <<AxfrRefused(q, question)>>, fail,
                                     "axfr_refused"),
             metrics |-> record_query(m, "Tcp"),
             query |-> decoded, response |-> None, calls |-> {"find_zone"}]
       ELSE IF w.ok
       THEN [conn |-> next.conn, metrics |-> next.metrics,
             query |-> decoded, response |-> Some(out.msg),
             calls |-> out.calls]
       ELSE [conn |-> Returned([c EXCEPT !.written = w.written],
                               "write_error", FALSE),
             metrics |-> record_query(m, "Tcp"),
             query |-> decoded, response |-> Some(out.msg),
             calls |-> out.calls]

(***************************** inputs **************************************)
\* the zones main() may load: the zone of EX after at most n add_record
\* calls, and the zone nested in it as Zone::new leaves it
RECURSIVE ZonesBuilt(_, _)
ZonesBuilt(origin, n) ==
    IF n = 0 THEN {Zone_new(origin, SoaOf(origin))}
    ELSE LET shorter == ZonesBuilt(origin, n - 1)
         IN shorter \cup {add_record(z, r) : z \in shorter, r \in RecordPool}

ZonePool == ZonesBuilt(EX, MaxRecords) \cup {Zone_new(W_EX, SoaOf(W_EX))}

QNames == {EX, W_EX, C_EX, D_EX, X_EX, B_W_EX, W_O}
QTypes == {"A", "NS", "CNAME", "AXFR"}
FirstQuestions == {Query_query(n, t) : n \in QNames, t \in QTypes}

\* the questions after the first one are never read
RECURSIVE MoreQuestions(_)
MoreQuestions(k) ==
    IF k = 0 THEN <<>>
    ELSE Append(MoreQuestions(k - 1), Query_query(C_EX, "A"))

QuestionLists ==
    {<<>>} \cup {<<q>> : q \in FirstQuestions}
           \cup {<<q>> \o MoreQuestions(k) :
                    q \in {Query_query(W_EX, "A"), Query_query(X_EX, "AXFR")},
                    k \in 1..(MaxQuestions - 1)}

HeaderPool ==
    { [id |-> 4660, op_code |-> "Query", recursion_desired |-> FALSE],
      [id |-> 65535, op_code |-> "Query", recursion_desired |-> TRUE],
      [id |-> 4660, op_code |-> "Update", recursion_desired |-> TRUE] }

EdnsPool ==
    { None,
      Some([Edns_new EXCEPT !.max_payload = 1232]),
      Some([Edns_new EXCEPT !.max_payload = 1232, !.dnssec_ok = TRUE]) }

\* well-formed requests, as Message::from_bytes hands them to process_query
Requests ==
    { [Message_new EXCEPT
          !.id = h.id, !.op_code = h.op_code,
          !.recursion_desired = h.recursion_desired,
          !.queries = qs, !.edns = e] :
      h \in HeaderPool, qs \in QuestionLists, e \in EdnsPool }

(***************************** inputs of the UDP handler *******************)
M_EX == <<"m", "ex">>
L_EX == <<"l", "ex">>
H_EX == <<"h", "ex">>
LongLabel == "aaaaaaaaaaaaaaaaaaaaaaaaaaaaaaaaaaaaaaaaaaaaaaaaaaaaaaaaaaaaaaa"
LongName(host) == <<host, LongLabel, LongLabel, LongLabel, "ex">>

RECURSIVE add_records(_, _)
add_records(zone, records) ==
    IF records = <<>> THEN zone
    ELSE add_records(add_record(zone, Head(records)), Tail(records))

\* a zone with an address and TXT records of three sizes
SizedRecords ==
    << from_rdata(W_EX, RecordTtl, "A", <<"192.0.2.1">>),
       from_rdata(M_EX, RecordTtl, "TXT", <<"medium">>),
       from_rdata(L_EX, RecordTtl, "TXT", <<"large">>),
       from_rdata(H_EX, RecordTtl, "TXT", <<"huge">>) >>

\* apex NS records that fill more than one classic datagram
LongNsRecords ==
    << from_rdata(EX, RecordTtl, "NS", LongName("ns1")),
       from_rdata(EX, RecordTtl, "NS", LongName("ns2")),
       from_rdata(EX, RecordTtl, "NS", LongName("ns3")) >>

\* the stores the transport handlers serve from
NetStores ==
    { add_zone(ZoneStore_new,
               add_records(Zone_new(EX, SoaOf(EX)), SizedRecords \o ns)) :
      ns \in { <<from_rdata(EX, RecordTtl, "NS", NS_EX)>>, LongNsRecords } }

NetQuestions ==
    { <<>>,
      <<Query_query(W_EX, "A")>>,
      <<Query_query(M_EX, "TXT")>>,
      <<Query_query(L_EX, "TXT")>>,
      <<Query_query(H_EX, "TXT")>>,
      <<Query_query(X_EX, "A")>>,
      <<Query_query(W_O, "A")>>,
      <<Query_query(EX, "AXFR")>>,
      <<Query_query(W_O, "AXFR")>> }

NetRequests ==
    { [Message_new EXCEPT
          !.id = h.id, !.op_code = h.op_code,
          !.recursion_desired = h.recursion_desired,
          !.queries = qs, !.edns = e] :
      h \in HeaderPool, qs \in NetQuestions,
      e \in {None, Some([Edns_new EXCEPT !.max_payload = 1232])} }

\* buffers that are not a DNS message: no octet, one octet, two octets, and
\* a whole header announcing a question that does not follow
CutBuffers ==
    { [header |-> h, body |-> Sections(Message_new), len |-> Len(h)] :
      h \in { <<>>, <<18>>, <<18, 52>>,
              <<18, 52, 1, 0, 0, 1, 0, 0, 0, 0, 0, 0>> } }

Buffers == {to_bytes(q) : q \in NetRequests} \cup CutBuffers

(***************************** inputs of the TCP handler *******************)
\* a zone as parse_zone_file builds it (the SOA record is added like every
\* other record) and one as the tests build it
TcpStores ==
    { add_zone(ZoneStore_new,
               add_records(Zone_new(EX, SoaOf(EX)), soa \o
                   << from_rdata(EX, RecordTtl, "NS", NS_EX),
                      from_rdata(W_EX, RecordTtl, "A", <<"192.0.2.1">>),
                      from_rdata(W_EX, RecordTtl, "A", <<"192.0.2.2">>) >>)) :
      soa \in { <<>>,
                <<from_rdata(EX, RecordTtl, "SOA", SOA_new(SoaOf(EX)))>> } }

TcpRequests ==
    { [Message_new EXCEPT !.id = 4660, !.queries = qs] :
        qs \in { <<>>, <<Query_query(W_EX, "A")>>,
                 <<Query_query(W_O, "AXFR")>> } }
    \cup
    { [Message_new EXCEPT
          !.id = 65535, !.recursion_desired = TRUE,
          !.queries = <<Query_query(n, "AXFR")>>] : n \in {EX, W_EX} }
    \cup
    { [Message_new EXCEPT
          !.id = 65535, !.op_code = "Update",
          !.queries = <<Query_query(EX, "AXFR")>>] }

\* what a client puts after a length prefix
TcpBuffers ==
    {to_bytes(q) : q \in TcpRequests}
    \cup {b \in CutBuffers : b.len > 0}

\* the length prefixes a client sends
Lengths == {0} \cup {b.len : b \in TcpBuffers}

\* the write_all call that fails, if one does
WriteFailures == {None, Some(0), Some(1), Some(3)}

TcpConfigs ==
    { Some([idle_timeout |-> IdleTimeout,
            max_queries_per_connection |-> MaxQueriesPerConnection]) }

(***************************** the system **********************************)
Init ==
    /\ zones = ZoneStore_new
    /\ serving = FALSE
    /\ query = None
    /\ response = None
    /\ calls = {}
    /\ limiter = None
    /\ now = 0
    /\ history = <<>>
    /\ metrics = Metrics_new
    /\ datagram = None
    /\ sent = <<>>
    /\ tcp_config = None
    /\ conn = None
    /\ located = None
    /\ listeners = None
    /\ rw = None
    /\ parse = None
    /\ threads = None
    /\ denial = None

\* load_zones: zone_store.add_zone(zone)
LoadZone(zone) ==
    /\ ~serving
    /\ Cardinality(DOMAIN zones \cup {zone.origin}) <= MaxZones
    /\ zones' = add_zone(zones, zone)
    /\ UNCHANGED <<serving, query, response, calls>>
    /\ UNCHANGED netVars
    /\ UNCHANGED auxVars

\* main: QueryProcessor::new(zone_store), server.run()
Run ==
    /\ ~serving
    /\ serving' = TRUE
    /\ UNCHANGED <<zones, query, response, calls>>
    /\ UNCHANGED netVars
    /\ UNCHANGED auxVars

\* a transport handler decodes a request and calls process_query
ProcessQuery(q) ==
    /\ serving
    /\ is_none(query)
    /\ LET out == process_query(zones, q)
       IN /\ query' = Some(q)
          /\ response' = Some(out.msg)
          /\ calls' = out.calls
    /\ UNCHANGED <<zones, serving>>
    /\ UNCHANGED netVars
    /\ UNCHANGED auxVars

\* the handler sends the response and is done with the request
Reply ==
    /\ is_some(response)
    /\ query' = None
    /\ response' = None
    /\ calls' = {}
    /\ UNCHANGED <<zones, serving>>
    /\ UNCHANGED netVars
    /\ UNCHANGED auxVars

Next ==
    \/ \E zone \in ZonePool : LoadZone(zone)
    \/ Run
    \/ \E q \in Requests : ProcessQuery(q)
    \/ Reply

Spec == Init /\ [][Next]_vars

(***************************** the rate limiter alone **********************)
\* main: config.server.rate_limit.map(RateLimiter::new)
InitRateLimit ==
    /\ zones = ZoneStore_new
    /\ serving = TRUE
    /\ query = None
    /\ response = None
    /\ calls = {}
    /\ limiter \in {Some(RateLimiter_new(n, 0)) : n \in 0..MaxQps}
    /\ now = 0
    /\ history = <<>>
    /\ metrics = Metrics_new
    /\ datagram = None
    /\ sent = <<>>
    /\ tcp_config = None
    /\ conn = None
    /\ located = None
    /\ listeners = None
    /\ rw = None
    /\ parse = None
    /\ threads = None
    /\ denial = None

\* a handler asks the limiter about the address of its peer
CheckRateLimit(addr) ==
    /\ is_some(limiter)
    /\ Len(history) < MaxCalls
    /\ LET r == check_rate_limit(unwrap(limiter), addr, now)
       IN /\ limiter' = Some(r.inner)
          /\ history' = Append(history,
                 [addr |-> addr, at |-> now, allowed |-> r.allowed])
    /\ UNCHANGED <<dnsVars, now, metrics, udpVars, tcpVars>>
    /\ UNCHANGED auxVars

\* a second passes
Advance ==
    /\ now < MaxTime
    /\ now' = now + 1
    /\ UNCHANGED <<dnsVars, limiter, history, metrics, udpVars, tcpVars>>
    /\ UNCHANGED auxVars

NextRateLimit ==
    \/ \E addr \in Addrs : CheckRateLimit(addr)
    \/ Advance

SpecRateLimit == InitRateLimit /\ [][NextRateLimit]_vars

(***************************** the UDP server ******************************)
\* main: zones loaded, an optional limiter, then DnsServer::run
InitUdp ==
    /\ zones \in NetStores
    /\ serving = TRUE
    /\ query = None
    /\ response = None
    /\ calls = {}
    /\ limiter \in {None, Some(RateLimiter_new(1, 0))}
    /\ now = 0
    /\ history = <<>>
    /\ metrics = Metrics_new
    /\ datagram = None
    /\ sent = <<>>
    /\ tcp_config = None
    /\ conn = None
    /\ located = None
    /\ listeners = None
    /\ rw = None
    /\ parse = None
    /\ threads = None
    /\ denial = None

\* run_udp: recv_from, then the task running handle_udp_query to its end
RecvUdp(data, addr) ==
    /\ is_none(datagram)
    /\ metrics.rate_limited + metrics.errors + metrics.total_queries
          < MaxDatagrams
    /\ LET r == handle_udp_query(data, addr, zones, limiter, metrics, now)
       IN /\ datagram' = Some([data |-> data, addr |-> addr])
          /\ sent' = r.sent
          /\ query' = r.query
          /\ response' = r.response
          /\ calls' = r.calls
          /\ limiter' = r.limiter
          /\ metrics' = r.metrics
    /\ UNCHANGED <<zones, serving, now, history, tcpVars>>
    /\ UNCHANGED auxVars

\* the task is dropped
UdpTaskEnds ==
    /\ is_some(datagram)
    /\ datagram' = None
    /\ sent' = <<>>
    /\ query' = None
    /\ response' = None
    /\ calls' = {}
    /\ UNCHANGED <<zones, serving, limiterVars, metrics, tcpVars>>
    /\ UNCHANGED auxVars

NextUdp ==
    \/ \E data \in Buffers, addr \in Addrs : RecvUdp(data, addr)
    \/ UdpTaskEnds
    \/ Advance

SpecUdp == InitUdp /\ [][NextUdp]_vars

(***************************** the TCP server ******************************)
\* one connection and its task; the tasks of different connections share
\* nothing but the rate limiter and the metrics
InitTcp ==
    /\ zones \in TcpStores
    /\ serving = TRUE
    /\ query = None
    /\ response = None
    /\ calls = {}
    /\ limiter \in {None, Some(RateLimiter_new(1, 0))}
    /\ now = 0
    /\ history = <<>>
    /\ metrics = Metrics_new
    /\ datagram = None
    /\ sent = <<>>
    /\ tcp_config \in TcpConfigs
    /\ conn = None
    /\ located = None
    /\ listeners = None
    /\ rw = None
    /\ parse = None
    /\ threads = None
    /\ denial = None

Conn == unwrap(conn)
Awaiting == is_some(conn) /\ Conn.pc \in {"length", "message"}

\* run_tcp: accept, then the task up to its first read
TcpAccept(addr) ==
    /\ is_none(conn)
    /\ LET r == LoopHead(Connection_new(addr), tcp_config,
                         record_tcp_connection(metrics), now)
       IN /\ conn' = Some(r.conn)
          /\ metrics' = r.metrics
    /\ UNCHANGED <<dnsVars, limiterVars, udpVars, tcp_config>>
    /\ UNCHANGED auxVars

\* read_exact(&mut len_buf) returns the two octets the client sent
TcpReadLength(msg_len, fail) ==
    /\ is_some(conn)
    /\ Conn.pc = "length"
    /\ LET r == ReadLength(Conn, msg_len, limiter, metrics, now, fail)
       IN /\ conn' = Some(r.conn)
          /\ metrics' = r.metrics
          /\ limiter' = r.limiter
    /\ UNCHANGED <<dnsVars, now, history, udpVars, tcp_config>>
    /\ UNCHANGED auxVars

\* read_exact(&mut msg_buf) returns the msg_len octets the client sent
TcpReadMessage(data) ==
    /\ is_some(conn)
    /\ Conn.pc = "message"
    /\ data.len = Conn.msg_len
    /\ conn' = Some([Conn EXCEPT !.pc = "respond",
                                 !.msg_buf = Some(data),
                                 !.requests_read = @ + 1])
    /\ UNCHANGED <<dnsVars, limiterVars, metrics, udpVars, tcp_config>>
    /\ UNCHANGED auxVars

\* the task handles the message and writes what it has to
TcpRespond(fail, order) ==
    /\ is_some(conn)
    /\ Conn.pc = "respond"
    /\ LET r == Respond(Conn, zones, tcp_config, metrics, now, fail, order)
       IN /\ conn' = Some(r.conn)
          /\ metrics' = r.metrics
          /\ query' = r.query
          /\ response' = r.response
          /\ calls' = r.calls
    /\ UNCHANGED <<zones, serving, limiterVars, udpVars, tcp_config>>
    /\ UNCHANGED auxVars

\* a read returns an error: the peer closed the stream ("eof") or the
\* stream failed ("error")
TcpReadFails(kind) ==
    /\ Awaiting
    /\ IF Conn.pc = "length"
       THEN /\ conn' = Some(Returned(Conn, kind, TRUE))
            /\ metrics' = record_tcp_connection_closed(
                               metrics, Conn.queries_handled)
       ELSE /\ conn' = Some(Returned(Conn, kind, FALSE))
            /\ metrics' = metrics
    /\ UNCHANGED <<dnsVars, limiterVars, udpVars, tcp_config>>
    /\ UNCHANGED auxVars

\* tokio::time::timeout(idle_timeout, read_exact(&mut len_buf)) elapses
TcpIdleTimeout ==
    /\ is_some(conn)
    /\ Conn.pc = "length"
    /\ now - Conn.waiting_since >= idle_timeout_secs(tcp_config)
    /\ conn' = Some(Returned([Conn EXCEPT !.timeouts_recorded = @ + 1],
                             "timeout", TRUE))
    /\ metrics' = record_tcp_connection_closed(
                      record_tcp_connection_timeout(metrics),
                      Conn.queries_handled)
    /\ UNCHANGED <<dnsVars, limiterVars, udpVars, tcp_config>>
    /\ UNCHANGED auxVars

\* a second passes while the task awaits its client; an armed timeout
\* elapses before the clock goes past it
TcpAdvance ==
    /\ Awaiting
    /\ now < idle_timeout_secs(tcp_config) + MaxLate
    /\ ~(/\ Conn.pc = "length"
         /\ now - Conn.waiting_since >= idle_timeout_secs(tcp_config))
    /\ now' = now + 1
    /\ UNCHANGED <<dnsVars, limiter, history, metrics, udpVars, tcpVars>>
    /\ UNCHANGED auxVars

Orders == UNION {MapOrders(zones[o]) : o \in DOMAIN zones}

NextTcp ==
    \/ \E addr \in Addrs : TcpAccept(addr)
    \/ \E msg_len \in Lengths, fail \in WriteFailures :
          TcpReadLength(msg_len, fail)
    \/ \E data \in TcpBuffers : TcpReadMessage(data)
    \/ \E fail \in WriteFailures, order \in Orders : TcpRespond(fail, order)
    \/ \E kind \in {"eof", "error"} : TcpReadFails(kind)
    \/ TcpIdleTimeout
    \/ TcpAdvance

SpecTcp == InitTcp /\ [][NextTcp]_vars

(***************************** the TCP server, one long connection *********)
\* the server with and without a tcp section in its configuration, and one
\* client that sends well-formed queries for as long as it is served
LongStores == {s \in TcpStores : "SOA" \in DOMAIN s[EX].records[EX]}
LongBuffers ==
    {to_bytes([Message_new EXCEPT !.id = 4660,
                                  !.queries = <<Query_query(W_EX, "A")>>])}
LongLengths == {b.len : b \in LongBuffers}

InitTcpLong ==
    /\ zones \in LongStores
    /\ serving = TRUE
    /\ query = None
    /\ response = None
    /\ calls = {}
    /\ limiter = None
    /\ now = 0
    /\ history = <<>>
    /\ metrics = Metrics_new
    /\ datagram = None
    /\ sent = <<>>
    /\ tcp_config \in TcpConfigs \cup {None}
    /\ conn = None
    /\ located = None
    /\ listeners = None
    /\ rw = None
    /\ parse = None
    /\ threads = None
    /\ denial = None

NextTcpLong ==
    \/ \E addr \in {"127.0.0.1"} : TcpAccept(addr)
    \/ \E msg_len \in LongLengths : TcpReadLength(msg_len, None)
    \/ \E data \in LongBuffers : TcpReadMessage(data)
    \/ \E order \in Orders : TcpRespond(None, order)
    \/ TcpReadFails("eof")
    \/ TcpIdleTimeout
    \/ TcpAdvance

SpecTcpLong == InitTcpLong /\ [][NextTcpLong]_vars

(***************************** the zone store alone ************************)
\* stores that host the root zone, a zone and a zone nested in it, and the
\* names asked of them
ROOT == <<>>
O == <<"o">>
LocateOrigins == {ROOT, EX, W_EX, O}
LocateZones == {Zone_new(o, SoaOf(o)) : o \in LocateOrigins}
LocateNames == QNames \cup {ROOT, O}

InitLocate ==
    /\ zones = ZoneStore_new
    /\ serving = FALSE
    /\ query = None
    /\ response = None
    /\ calls = {}
    /\ limiter = None
    /\ now = 0
    /\ history = <<>>
    /\ metrics = Metrics_new
    /\ datagram = None
    /\ sent = <<>>
    /\ tcp_config = None
    /\ conn = None
    /\ located = None
    /\ listeners = None
    /\ rw = None
    /\ parse = None
    /\ threads = None
    /\ denial = None

\* zones.find_zone(name) on the store the server runs with
FindZone(name) ==
    /\ serving
    /\ located' = Some([name |-> name, zone |-> find_zone(zones, name)])
    /\ UNCHANGED <<dnsVars, netVars, listeners, rw, parse, threads, denial>>

NextLocate ==
    \/ \E zone \in LocateZones : LoadZone(zone)
    \/ Run
    \/ \E name \in LocateNames : FindZone(name)

SpecLocate == InitLocate /\ [][NextLocate]_vars

(***************************** the listeners *******************************)
\* run_udp and run_tcp: each a loop that spawns one task per datagram or
\* connection; logged counts the tracing::error! calls of the loops and of
\* the spawned tasks
Listeners_new == [udp |-> "running", tcp |-> "running", logged |-> 0]

\* a spawned task that lets the error of its handler end the loop
task_finished_Propagate(loop, result) ==
    IF result = "Err" THEN "returned" ELSE loop

\* tokio::spawn(async move { if let Err(e) = handle(...).await { error!() } })
task_finished(loop, result) == loop

\* match socket.recv_from(..).await / listener.accept().await
\* { Ok(..) => spawn, Err(e) => error!() }
received(loop, result) == loop

log_error(l, result) ==
    [l EXCEPT !.logged = IF result = "Err" THEN @ + 1 ELSE @]

\* what handle_udp_query returned: Err when send_to failed
UdpTaskResult == IF sent = <<>> THEN "Err" ELSE "Ok"

\* what handle_tcp_connection returned: Err from the `?` of a failed read
\* or write and from the read error of the length prefix
TcpTaskResult ==
    IF \/ unwrap(conn).exit \in {"error", "write_error"}
       \/ unwrap(conn).exit = "eof" /\ unwrap(conn).closed_recorded = <<>>
    THEN "Err" ELSE "Ok"

ListenStores == {s \in TcpStores : "SOA" \in DOMAIN s[EX].records[EX]}
ListenMessages ==
    {to_bytes([Message_new EXCEPT !.id = 4660,
                                  !.queries = <<Query_query(W_EX, "A")>>])}
ListenBuffers == ListenMessages \cup {b \in CutBuffers : b.len = 1}
ListenLengths == {0} \cup {b.len : b \in ListenMessages}
ListenAddrs == {"127.0.0.1"}
ListenWriteFailures == {None, Some(0)}

InitListeners ==
    /\ zones \in ListenStores
    /\ serving = TRUE
    /\ query = None
    /\ response = None
    /\ calls = {}
    /\ limiter = Some(RateLimiter_new(1, 0))
    /\ now = 0
    /\ history = <<>>
    /\ metrics = Metrics_new
    /\ datagram = None
    /\ sent = <<>>
    /\ tcp_config \in TcpConfigs
    /\ conn = None
    /\ located = None
    /\ listeners = Some(Listeners_new)
    /\ rw = None
    /\ parse = None
    /\ threads = None
    /\ denial = None

Loops == unwrap(listeners)

\* run_udp: recv_from returned a datagram; the clients speak one at a time
ListenUdp(data, addr) ==
    /\ Loops.udp = "running"
    /\ is_none(conn)
    /\ RecvUdp(data, addr)

\* run_udp: recv_from returned a datagram, and the send_to of the task
\* that handles it fails
ListenUdpSendFails(data, addr) ==
    /\ Loops.udp = "running"
    /\ is_none(conn)
    /\ is_none(datagram)
    /\ metrics.rate_limited + metrics.errors + metrics.total_queries
          < MaxDatagrams
    /\ LET r == handle_udp_query(data, addr, zones, limiter, metrics, now)
       IN /\ datagram' = Some([data |-> data, addr |-> addr])
          /\ sent' = <<>>
          /\ query' = r.query
          /\ response' = r.response
          /\ calls' = r.calls
          /\ limiter' = r.limiter
          /\ metrics' = r.metrics
    /\ UNCHANGED <<zones, serving, now, history, tcpVars, auxVars>>

\* run_udp: recv_from returned an error
UdpRecvFails ==
    /\ Loops.udp = "running"
    /\ Loops.logged < MaxLogged
    /\ listeners' = Some(log_error([Loops EXCEPT !.udp = received(@, "Err")],
                                   "Err"))
    /\ UNCHANGED <<dnsVars, netVars, located, rw, parse, threads, denial>>

\* the task of a datagram returns
UdpTaskReturns ==
    /\ is_some(datagram)
    /\ UdpTaskResult = "Err" => Loops.logged < MaxLogged
    /\ listeners' =
          Some(log_error([Loops EXCEPT
                             !.udp = task_finished(@, UdpTaskResult)],
                         UdpTaskResult))
    /\ datagram' = None
    /\ sent' = <<>>
    /\ query' = None
    /\ response' = None
    /\ calls' = {}
    /\ UNCHANGED <<zones, serving, limiterVars, metrics, tcpVars>>
    /\ UNCHANGED <<located, rw, parse, threads, denial>>

\* run_tcp: accept returned a stream
ListenTcp(addr) ==
    /\ Loops.tcp = "running"
    /\ is_none(datagram)
    /\ metrics.tcp_connections < MaxConnections
    /\ TcpAccept(addr)

\* run_tcp: accept returned an error
TcpAcceptFails ==
    /\ Loops.tcp = "running"
    /\ Loops.logged < MaxLogged
    /\ listeners' = Some(log_error([Loops EXCEPT !.tcp = received(@, "Err")],
                                   "Err"))
    /\ UNCHANGED <<dnsVars, netVars, located, rw, parse, threads, denial>>

\* the task of a connection returns
TcpTaskReturns ==
    /\ is_some(conn)
    /\ unwrap(conn).pc = "closed"
    /\ TcpTaskResult = "Err" => Loops.logged < MaxLogged
    /\ listeners' =
          Some(log_error([Loops EXCEPT
                             !.tcp = task_finished(@, TcpTaskResult)],
                         TcpTaskResult))
    /\ conn' = None
    /\ query' = None
    /\ response' = None
    /\ calls' = {}
    /\ UNCHANGED <<zones, serving, limiterVars, metrics, udpVars, tcp_config>>
    /\ UNCHANGED <<located, rw, parse, threads, denial>>

NextListeners ==
    \/ \E data \in ListenBuffers, addr \in ListenAddrs :
          ListenUdp(data, addr)
    \/ \E data \in ListenBuffers, addr \in ListenAddrs :
          ListenUdpSendFails(data, addr)
    \/ UdpRecvFails
    \/ UdpTaskReturns
    \/ \E addr \in ListenAddrs : ListenTcp(addr)
    \/ TcpAcceptFails
    \/ \E msg_len \in ListenLengths, fail \in ListenWriteFailures :
          TcpReadLength(msg_len, fail)
    \/ \E data \in ListenMessages : TcpReadMessage(data)
    \/ \E fail \in ListenWriteFailures, order \in Orders :
          TcpRespond(fail, order)
    \/ \E kind \in {"eof", "error"} : TcpReadFails(kind)
    \/ TcpIdleTimeout
    \/ TcpAdvance
    \/ TcpTaskReturns

SpecListeners == InitListeners /\ [][NextListeners]_vars

(***************************** the lock around the zone store **************)
\* Arc<tokio::sync::RwLock<ZoneStore>>: any number of read guards or one
\* write guard; tasks that have to wait are served first in, first out, so
\* that a read asked for behind a waiting write waits as well.  version
\* counts the stores put behind the lock.
RwLock_new == [version |-> 0, readers |-> {}, writer |-> FALSE, queue |-> <<>>]

\* the tasks that read are numbered from 1; the signal handler, which
\* writes, is waiter 0
Reloader == 0

\* a write lock that does not wait for the read guards to be dropped
can_write_IgnoringReaders(lock) == ~lock.writer

\* read().await returns at once
can_read(lock) == ~lock.writer /\ lock.queue = <<>>

\* write().await returns at once
can_write(lock) == ~lock.writer /\ lock.readers = {} /\ lock.queue = <<>>

\* a guard was dropped: the waiters at the head of the queue that can be
\* served are served, in order
RECURSIVE wake(_)
wake(lock) ==
    IF lock.queue = <<>> \/ lock.writer THEN lock
    ELSE IF Head(lock.queue) = Reloader
    THEN IF lock.readers = {}
         THEN [lock EXCEPT !.writer = TRUE, !.queue = Tail(@)]
         ELSE lock
    ELSE wake([lock EXCEPT !.readers = @ \cup {Head(lock.queue)},
                           !.queue = Tail(@)])

\* the zone-store operations of one query, made under one read guard, and
\* those of one zone transfer, whose guard is held while the records are
\* written to the client
QueryLookups ==
    <<"find_zone", "contains_name", "lookup", "lookup_cname",
      "lookup_target", "lookup_ns">>
AxfrLookups == <<"find_zone", "get_all_records", "write_all", "write_all">>
Lookups(kind) == IF kind = "axfr" THEN AxfrLookups ELSE QueryLookups

Task_new == [kind |-> "none", pc |-> "idle", seen |-> <<>>]
Tasks == 1..MaxTasks

\* the stores load_zones builds from the zone files as they are on disk
ReloadStores == TcpStores

InitReload ==
    /\ zones \in ReloadStores
    /\ serving = TRUE
    /\ query = None
    /\ response = None
    /\ calls = {}
    /\ limiter = None
    /\ now = 0
    /\ history = <<>>
    /\ metrics = Metrics_new
    /\ datagram = None
    /\ sent = <<>>
    /\ tcp_config = None
    /\ conn = None
    /\ located = None
    /\ listeners = None
    /\ rw = Some([lock |-> RwLock_new,
                  tasks |-> [t \in Tasks |-> Task_new],
                  reload |-> [pc |-> "idle", signals |-> 0]])
    /\ parse = None
    /\ threads = None
    /\ denial = None

Rw == unwrap(rw)

\* a task starts on a query or a zone transfer: zones.read().await
ReadLock(t, kind) ==
    /\ Rw.tasks[t].pc = "idle"
    /\ rw' = Some(
          IF can_read(Rw.lock)
          THEN [Rw EXCEPT !.lock.readers = @ \cup {t},
                          !.tasks[t].kind = kind,
                          !.tasks[t].pc = "reading"]
          ELSE [Rw EXCEPT !.lock.queue = Append(@, t),
                          !.tasks[t].kind = kind,
                          !.tasks[t].pc = "queued"])
    /\ UNCHANGED <<dnsVars, netVars, located, listeners, parse, threads, denial>>

\* the waiter is handed its read guard
ReadGranted(t) ==
    /\ Rw.tasks[t].pc = "queued"
    /\ t \in Rw.lock.readers
    /\ rw' = Some([Rw EXCEPT !.tasks[t].pc = "reading"])
    /\ UNCHANGED <<dnsVars, netVars, located, listeners, parse, threads, denial>>

\* the task makes its next operation on the store behind its guard; for a
\* write_all of a zone transfer this is the client taking the record
Lookup(t) ==
    /\ Rw.tasks[t].pc = "reading"
    /\ Len(Rw.tasks[t].seen) < Len(Lookups(Rw.tasks[t].kind))
    /\ rw' = Some([Rw EXCEPT !.tasks[t].seen =
                      Append(@, [op |-> Lookups(Rw.tasks[t].kind)[Len(@) + 1],
                                 version |-> Rw.lock.version])])
    /\ UNCHANGED <<dnsVars, netVars, located, listeners, parse, threads, denial>>

\* the task is done with the store: its guard is dropped
ReadUnlock(t) ==
    /\ Rw.tasks[t].pc = "reading"
    /\ Len(Rw.tasks[t].seen) = Len(Lookups(Rw.tasks[t].kind))
    /\ rw' = Some([Rw EXCEPT
                      !.lock = wake([@ EXCEPT !.readers = @ \ {t}]),
                      !.tasks[t].pc = "done"])
    /\ UNCHANGED <<dnsVars, netVars, located, listeners, parse, threads, denial>>

\* SIGHUP: load_zones failed, the store is left alone
ReloadFails ==
    /\ Rw.reload.pc = "idle"
    /\ Rw.reload.signals < MaxReloads
    /\ rw' = Some([Rw EXCEPT !.reload.signals = @ + 1])
    /\ UNCHANGED <<dnsVars, netVars, located, listeners, parse, threads, denial>>

\* SIGHUP: load_zones built a new store; zone_store.write().await
WriteLock ==
    /\ Rw.reload.pc = "idle"
    /\ Rw.reload.signals < MaxReloads
    /\ rw' = Some(
          IF can_write(Rw.lock)
          THEN [Rw EXCEPT !.lock.writer = TRUE,
                          !.reload.pc = "writing",
                          !.reload.signals = @ + 1]
          ELSE [Rw EXCEPT !.lock.queue = Append(@, Reloader),
                          !.reload.pc = "queued",
                          !.reload.signals = @ + 1])
    /\ UNCHANGED <<dnsVars, netVars, located, listeners, parse, threads, denial>>

\* the reload is handed its write guard
WriteGranted ==
    /\ Rw.reload.pc = "queued"
    /\ Rw.lock.writer
    /\ rw' = Some([Rw EXCEPT !.reload.pc = "writing"])
    /\ UNCHANGED <<dnsVars, netVars, located, listeners, parse, threads, denial>>

\* *store = new_store, and the write guard is dropped
Swap(new_store) ==
    /\ Rw.reload.pc = "writing"
    /\ zones' = new_store
    /\ rw' = Some([Rw EXCEPT
                      !.lock = wake([@ EXCEPT !.writer = FALSE,
                                              !.version = @ + 1]),
                      !.reload.pc = "idle"])
    /\ UNCHANGED <<serving, query, response, calls>>
    /\ UNCHANGED <<netVars, located, listeners, parse, threads, denial>>

NextReload ==
    \/ \E t \in Tasks, kind \in {"query", "axfr"} : ReadLock(t, kind)
    \/ \E t \in Tasks : ReadGranted(t)
    \/ \E t \in Tasks : Lookup(t)
    \/ \E t \in Tasks : ReadUnlock(t)
    \/ ReloadFails
    \/ WriteLock
    \/ WriteGranted
    \/ \E new_store \in ReloadStores : Swap(new_store)

SpecReload == InitReload /\ [][NextReload]_vars

(***************************** the zone-file parser ************************)
\* A zone file is a sequence of physical lines and a line a sequence of
\* whitespace-separated tokens. A token carries its text and what the
\* conversions applied to it read in that text: its labels and whether it
\* ends with a dot (Name::from_str), its decimal digits when it is all
\* digits (str::parse::<u32>), its dotted numbers (str::parse::<Ipv4Addr>).
\* A parenthesis, a semicolon or a quote stands as a token of its own.
Tok(text, labels, dot, digits, octets) ==
    [text |-> text, labels |-> labels, dot |-> dot, digits |-> digits,
     octets |-> octets]
Word(text) == Tok(text, <<text>>, FALSE, <<>>, <<>>)
Fqdn(text, labels) == Tok(text, labels, TRUE, <<>>, <<>>)
Num(text, digits) == Tok(text, <<text>>, FALSE, digits, <<>>)
Ip(text, octets) == Tok(text, <<text>>, FALSE, <<>>, octets)

RECURSIVE find_text(_, _, _)
\* line.find(c): the position of the first token with that text
find_text(line, text, i) ==
    IF i > Len(line) THEN None
    ELSE IF line[i].text = text THEN Some(i)
    ELSE find_text(line, text, i + 1)

contains_text(line, text) == is_some(find_text(line, text, 1))

RECURSIVE remove_text(_, _)
\* trimmed.replace(c, "")
remove_text(line, text) ==
    IF line = <<>> THEN <<>>
    ELSE IF line[1].text = text THEN remove_text(Tail(line), text)
    ELSE <<line[1]>> \o remove_text(Tail(line), text)

\* the comment is cut at the first semicolon unless the number of quotes
\* before it is odd
strip_comment(line) ==
    LET pos == find_text(line, ";", 1)
    IN IF is_none(pos) THEN line
       ELSE LET before_semicolon == SubSeq(line, 1, unwrap(pos) - 1)
                quote_count ==
                    Cardinality({i \in DOMAIN before_semicolon :
                                    before_semicolon[i].text = "\""})
            IN IF quote_count % 2 = 1 THEN line ELSE before_semicolon

RECURSIVE preprocess_loop(_, _, _, _)
\* the loop over content.lines(). current_line holds the tokens pushed so
\* far; as a string it is non-empty exactly while in_parens is set (the
\* opening branch pushes a space, the closing branch resets it), which is
\* the test made after the loop
preprocess_loop(rest, result, current_line, in_parens) ==
    IF rest = <<>>
    THEN IF in_parens THEN Append(result, current_line) ELSE result
    ELSE LET trimmed == strip_comment(rest[1])
         IN IF contains_text(trimmed, "(")
            THEN preprocess_loop(Tail(rest), result,
                                 current_line \o remove_text(trimmed, "("),
                                 TRUE)
            ELSE IF contains_text(trimmed, ")")
            THEN preprocess_loop(
                     Tail(rest),
                     Append(result,
                            current_line \o remove_text(trimmed, ")")),
                     <<>>, FALSE)
            ELSE IF in_parens
            THEN preprocess_loop(Tail(rest), result,
                                 current_line \o trimmed, TRUE)
            ELSE preprocess_loop(
                     Tail(rest),
                     IF trimmed # <<>> THEN Append(result, trimmed)
                     ELSE result,
                     current_line, FALSE)

preprocess_zone_content(content) == preprocess_loop(content, <<>>, <<>>, FALSE)
\* Result<T>
Ok(v) == [ok |-> TRUE, value |-> v, error |-> ""]
Err(e) == [ok |-> FALSE, value |-> None, error |-> e]

\* Name::from_str: a name with an empty label is refused
Name_from_str(labels) ==
    IF \E i \in DOMAIN labels : labels[i] = ""
    THEN Err("Malformed label")
    ELSE Ok(labels)

RECURSIVE strip_zeros(_)
strip_zeros(digits) ==
    IF digits # <<>> /\ digits[1] = 0 THEN strip_zeros(Tail(digits))
    ELSE digits

RECURSIVE digits_le(_, _)
\* digit strings of one length, compared as numbers
digits_le(a, b) ==
    \/ a = <<>>
    \/ a[1] < b[1]
    \/ a[1] = b[1] /\ digits_le(Tail(a), Tail(b))

RECURSIVE digits_value(_)
digits_value(digits) ==
    IF digits = <<>> THEN 0
    ELSE 10 * digits_value(SubSeq(digits, 1, Len(digits) - 1))
         + digits[Len(digits)]

U32MaxDigits == <<4, 2, 9, 4, 9, 6, 7, 2, 9, 5>>

\* str::parse::<u32>(): all digits and at most 4294967295
parse_u32(tok) ==
    LET d == strip_zeros(tok.digits)
    IN IF tok.digits = <<>> THEN None
       ELSE IF Len(d) < Len(U32MaxDigits)
               \/ (Len(d) = Len(U32MaxDigits) /\ digits_le(d, U32MaxDigits))
       THEN Some(digits_value(d))
       ELSE None

\* str::parse::<Ipv4Addr>(): four numbers of one octet each
parse_Ipv4Addr(tok) ==
    IF Len(tok.octets) = 4 /\ \A i \in 1..4 : tok.octets[i] <= 255
    THEN Some(tok.text)
    ELSE None

parse_domain_name(tok, origin) ==
    IF tok.dot THEN Name_from_str(tok.labels)
    ELSE Name_from_str(tok.labels \o origin)

\* the owner name: "@", "*", "*.sub", an absolute name or a relative one
owner_name(tok, origin) ==
    IF tok.text = "@" THEN Ok(origin)
    ELSE IF tok.text = "*" THEN Name_from_str(<<"*">> \o origin)
    ELSE IF tok.dot THEN Name_from_str(tok.labels)
    ELSE Name_from_str(tok.labels \o origin)

\* the five numbers of an SOA, each parsed with `?`
soa_numbers(parts, idx) ==
    [i \in 1..5 |-> parse_u32(parts[idx + 1 + i])]

\* the match on the record type, idx being the place of the first RDATA
\* token. Of the types the parser knows, the zone files read here use
\* A, NS, CNAME and SOA; a type it does not know is skipped with a warning
parse_rdata(rtype, parts, idx, origin) ==
    IF rtype = "A"
    THEN IF Len(parts) < idx THEN Ok(None)
         ELSE IF is_some(parse_Ipv4Addr(parts[idx]))
         THEN Ok(Some(<<unwrap(parse_Ipv4Addr(parts[idx]))>>))
         ELSE Err("Invalid A record")
    ELSE IF rtype \in {"NS", "CNAME"}
    THEN IF Len(parts) < idx THEN Ok(None)
         ELSE LET target == parse_domain_name(parts[idx], origin)
              IN IF target.ok THEN Ok(Some(target.value))
                 ELSE Err("Invalid NS or CNAME record")
    ELSE IF rtype = "SOA"
    THEN IF Len(parts) < idx + 6 THEN Ok(None)
         ELSE LET mname == parse_domain_name(parts[idx], origin)
                  rname == parse_domain_name(parts[idx + 1], origin)
                  n == soa_numbers(parts, idx)
              IN IF ~mname.ok THEN mname
                 ELSE IF ~rname.ok THEN rname
                 ELSE IF \E i \in 1..5 : is_none(n[i])
                 THEN Err("Invalid SOA number")
                 ELSE Ok(Some(<<mname.value, rname.value, unwrap(n[1]),
                                unwrap(n[2]), unwrap(n[3]), unwrap(n[4]),
                                unwrap(n[5])>>))
    ELSE Ok(None)

\* parse_resource_record(line, origin, default_ttl, line_num):
\* Err, Ok(None) for a line that is skipped, Ok(Some(record))
parse_resource_record(parts, origin, default_ttl) ==
    IF Len(parts) < 4 THEN Ok(None)
    ELSE LET name == owner_name(parts[1], origin)
             ttl_given == parse_u32(parts[2])
             ttl == IF is_some(ttl_given) THEN unwrap(ttl_given)
                    ELSE default_ttl
             at_class == IF is_some(ttl_given) THEN 3 ELSE 2
             at_type == IF parts[at_class].text = "IN" THEN at_class + 1
                        ELSE at_class
             rtype == parts[at_type].text
             rdata == parse_rdata(rtype, parts, at_type + 1, origin)
         IN IF ~name.ok THEN name
            ELSE IF ~rdata.ok THEN rdata
            ELSE IF is_none(rdata.value) THEN Ok(None)
            ELSE Ok(Some(from_rdata(name.value, ttl, rtype,
                                    unwrap(rdata.value))))

extract_soa_data(record) ==
    IF record.rtype = "SOA"
    THEN Some([mname |-> record.rdata[1], rname |-> record.rdata[2],
               serial |-> record.rdata[3], refresh |-> record.rdata[4],
               retry |-> record.rdata[5], expire |-> record.rdata[6],
               minimum |-> record.rdata[7]])
    ELSE None

DefaultTtl == 3600

\* a line that starts with '$'
is_directive(line) == line[1].text \in {"$ORIGIN", "$TTL", "$INCLUDE"}

RECURSIVE parse_lines(_, _, _, _, _)
\* the loop of parse_zone_file over the logical lines; zone is the
\* Option<Zone> built so far
parse_lines(rest, origin, zone, default_ttl, current_origin) ==
    IF rest = <<>>
    THEN IF is_some(zone) THEN Ok(unwrap(zone))
         ELSE Err("Zone file must contain an SOA record")
    ELSE LET line == rest[1]
             more == Tail(rest)
         IN IF line = <<>> \/ line[1].text = ";"
            THEN parse_lines(more, origin, zone, default_ttl, current_origin)
            ELSE IF is_directive(line)
            THEN IF line[1].text = "$ORIGIN" /\ Len(line) >= 2
                 THEN LET o == Name_from_str(line[2].labels)
                      IN IF o.ok
                         THEN parse_lines(more, origin, zone, default_ttl,
                                          o.value)
                         ELSE Err("Invalid $ORIGIN")
                 ELSE IF line[1].text = "$TTL" /\ Len(line) >= 2
                 THEN LET t == parse_u32(line[2])
                      IN IF is_some(t)
                         THEN parse_lines(more, origin, zone, unwrap(t),
                                          current_origin)
                         ELSE Err("Invalid $TTL")
                 ELSE parse_lines(more, origin, zone, default_ttl,
                                  current_origin)
            ELSE LET r == parse_resource_record(line, current_origin,
                                                default_ttl)
                 IN IF ~r.ok THEN r
                    ELSE IF is_none(r.value)
                    THEN parse_lines(more, origin, zone, default_ttl,
                                     current_origin)
                    ELSE LET record == unwrap(r.value)
                             soa_data == extract_soa_data(record)
                             z == IF record.rtype = "SOA" /\ is_none(zone)
                                     /\ is_some(soa_data)
                                  THEN Some(Zone_new(origin,
                                                     unwrap(soa_data)))
                                  ELSE zone
                             z2 == IF is_some(z)
                                   THEN Some(add_record(unwrap(z), record))
                                   ELSE z
                         IN parse_lines(more, origin, z2, default_ttl,
                                        current_origin)

\* parse_zone_file(path, origin_name) on a file with this content
parse_zone_file(content, origin) ==
    parse_lines(preprocess_zone_content(content), origin, None, DefaultTtl,
                origin)
\* the tokens of the zone files read here
AT == Word("@")
IN_ == Word("IN")
OPEN == Word("(")
CLOSE == Word(")")
SEMI == Word(";")
SERIAL == Num("1", <<1>>)
REFRESH == Num("7200", <<7, 2, 0, 0>>)
RETRY == Num("3600", <<3, 6, 0, 0>>)
EXPIRE == Num("1209600", <<1, 2, 0, 9, 6, 0, 0>>)
MINIMUM == Num("86400", <<8, 6, 4, 0, 0>>)
TTL60 == Num("60", <<6, 0>>)
TTL300 == Num("300", <<3, 0, 0>>)
TOO_BIG == Num("4294967296", <<4, 2, 9, 4, 9, 6, 7, 2, 9, 6>>)
ADDR == Ip("192.0.2.1", <<192, 0, 2, 1>>)
BAD_ADDR == Ip("999.1.1.1", <<999, 1, 1, 1>>)

SoaHead == <<AT, IN_, Word("SOA"), Word("ns"), Word("admin")>>

\* the physical lines a zone file is made of: an SOA on one line, on two
\* lines, with both parentheses on its line, and with too few fields
SoaOnOneLine == SoaHead \o <<SERIAL, REFRESH, RETRY, EXPIRE, MINIMUM>>
SoaOpening == SoaHead \o <<OPEN, SERIAL, REFRESH, SEMI, Word("serial")>>
SoaClosing == <<RETRY, EXPIRE, MINIMUM, CLOSE>>
SoaInParens ==
    SoaHead \o <<OPEN, SERIAL, REFRESH, RETRY, EXPIRE, MINIMUM, CLOSE>>
SoaTooShort == SoaHead \o <<SERIAL>>

\* the directives
TtlLine == <<Word("$TTL"), TTL300>>
BadTtlLine == <<Word("$TTL"), Word("invalid")>>
OriginLine == <<Word("$ORIGIN"), Fqdn("o.", O)>>

\* NAME [TTL] [CLASS] TYPE RDATA
RecordLine(name, ttl, class, rdata) ==
    <<name>> \o ttl \o class \o <<Word("A"), rdata>>

\* an A record with and without TTL and class
RecordForms ==
    {RecordLine(Word("w"), ttl, class, ADDR) :
        ttl \in {<<>>, <<TTL60>>}, class \in {<<>>, <<IN_>>}}

\* values that do not parse, an absolute owner name, a comment
ZoneLines ==
    {SoaOnOneLine, SoaOpening, SoaClosing, SoaInParens, SoaTooShort,
     TtlLine, BadTtlLine, OriginLine}
    \cup RecordForms
    \cup { RecordLine(Word("w"), <<>>, <<IN_>>, BAD_ADDR),
           RecordLine(Word("w"), <<>>, <<>>, BAD_ADDR),
           RecordLine(Word("w"), <<TOO_BIG>>, <<IN_>>, ADDR),
           RecordLine(Fqdn("w.o.", W_O), <<>>, <<IN_>>, ADDR),
           <<SEMI, Word("comment")>> }

ZoneFiles == UNION {[1..n -> ZoneLines] : n \in 0..MaxLines}

\* a zone file on disk, not read yet
Parser_new(content, origin) ==
    [content |-> content, origin |-> origin, lines |-> None,
     result |-> None]

InitParse ==
    /\ zones = ZoneStore_new
    /\ serving = FALSE
    /\ query = None
    /\ response = None
    /\ calls = {}
    /\ limiter = None
    /\ now = 0
    /\ history = <<>>
    /\ metrics = Metrics_new
    /\ datagram = None
    /\ sent = <<>>
    /\ tcp_config = None
    /\ conn = None
    /\ located = None
    /\ listeners = None
    /\ rw = None
    /\ \E content \in ZoneFiles : parse = Some(Parser_new(content, EX))
    /\ threads = None
    /\ denial = None

Parser == unwrap(parse)

\* parse_zone_file(path, "ex."): the logical lines its preprocessor made
\* are kept beside its result
ParseZoneFile ==
    /\ is_some(parse)
    /\ is_none(Parser.result)
    /\ parse' = Some([Parser EXCEPT
                        !.lines = Some(preprocess_zone_content(Parser.content)),
                        !.result = Some(parse_zone_file(Parser.content,
                                                        Parser.origin))])
    /\ UNCHANGED <<dnsVars, netVars, located, listeners, rw, threads, denial>>

NextParse == ParseZoneFile

SpecParse == InitParse /\ [][NextParse]_vars

(***************************** Metrics under concurrent calls ***************)
\* Metrics::new() with the counters of the responses and of the query types
Metrics_new_all ==
    Metrics_new @@
    [edns_queries |-> 0, noerror_responses |-> 0, nxdomain_responses |-> 0,
     servfail_responses |-> 0, refused_responses |-> 0,
     formerr_responses |-> 0, query_types |-> <<>>]

\* a fetch_add that forgets what the counter held
fetch_add_Store(m, field, n) == [m EXCEPT ![field] = n]

\* AtomicU64::fetch_add(n, Ordering::Relaxed): one indivisible
\* read-modify-write (no counter here comes near 2^64)
fetch_add(m, field, n) == [m EXCEPT ![field] = @ + n]

\* the counter record_response adds to, None for the codes it ignores
response_counter(rc) ==
    CASE rc = "NoError" -> Some("noerror_responses")
      [] rc = "NXDomain" -> Some("nxdomain_responses")
      [] rc = "ServFail" -> Some("servfail_responses")
      [] rc = "Refused" -> Some("refused_responses")
      [] rc = "FormErr" -> Some("formerr_responses")
      [] OTHER -> None

\* *types.entry(qtype).or_insert(0) += 1
count_type(types, qtype) ==
    [t \in DOMAIN types \cup {qtype} |->
        IF t = qtype
        THEN (IF qtype \in DOMAIN types THEN types[qtype] ELSE 0) + 1
        ELSE types[t]]

\* the calls the threads make
MetricCalls ==
    [op : {"record_query"}, protocol : {"Udp", "Tcp"}, edns : BOOLEAN,
     rc : {""}, qtype : {""}]
    \cup [op : {"record_response"}, protocol : {""}, edns : {FALSE},
          rc : {"NoError", "Refused", "NotImp"}, qtype : {""}]
    \cup [op : {"record_query_type"}, protocol : {""}, edns : {FALSE},
          rc : {""}, qtype : {"A"}]

MetricThreads == {"t1", "t2"}
Idle == [op |-> "idle", protocol |-> "", edns |-> FALSE, rc |-> "",
         qtype |-> "", at |-> ""]

\* the calls that have returned
Returned_new ==
    [record_query |-> 0,
     record_response |-> [rc \in {"NoError", "Refused", "NotImp"} |-> 0],
     record_query_type |-> [t \in {"A"} |-> 0]]

\* the loads of get_snapshot, in the order of the code
SnapshotOrder ==
    <<"total_queries", "udp_queries", "tcp_queries", "edns_queries",
      "noerror_responses", "nxdomain_responses", "servfail_responses",
      "refused_responses", "formerr_responses", "query_types">>

InitMetrics ==
    /\ zones = ZoneStore_new
    /\ serving = FALSE
    /\ query = None
    /\ response = None
    /\ calls = {}
    /\ limiter = None
    /\ now = 0
    /\ history = <<>>
    /\ metrics = Metrics_new_all
    /\ datagram = None
    /\ sent = <<>>
    /\ tcp_config = None
    /\ conn = None
    /\ located = None
    /\ listeners = None
    /\ rw = None
    /\ parse = None
    /\ threads = Some([running |-> [t \in MetricThreads |-> Idle],
                       made |-> 0,
                       returned |-> Returned_new,
                       types_lock |-> "",
                       snapshot |-> None])
    /\ denial = None

Th == unwrap(threads)

\* a thread that returns from its call
returns(th, t) ==
    LET c == th.running[t]
        key == IF c.op = "record_response" THEN c.rc ELSE c.qtype
    IN [th EXCEPT
          !.running[t] = Idle,
          !.returned[c.op] =
              IF c.op = "record_query" THEN @ + 1
              ELSE [@ EXCEPT ![key] = @ + 1]]

\* a snapshot that is being taken is no longer one of a quiet moment
disturbed(th) ==
    IF is_some(th.snapshot) /\ unwrap(th.snapshot).at <= Len(SnapshotOrder)
    THEN [th EXCEPT !.snapshot = Some([unwrap(@) EXCEPT !.quiet = FALSE])]
    ELSE th

\* a thread enters record_query, record_response or record_query_type
MetricCall(t, c) ==
    /\ is_some(threads)
    /\ Th.running[t].op = "idle"
    /\ Th.made < MaxOps
    /\ threads' = Some([disturbed(Th) EXCEPT
            !.running[t] =
                [op |-> c.op, protocol |-> c.protocol, edns |-> c.edns,
                 rc |-> c.rc, qtype |-> c.qtype,
                 at |-> CASE c.op = "record_query" -> "total"
                          [] c.op = "record_response" -> "add"
                          [] OTHER -> "lock"],
            !.made = @ + 1])
    /\ UNCHANGED <<dnsVars, netVars, located, listeners, rw, parse, denial>>

\* record_query: total_queries, then the counter of the protocol, then
\* edns_queries, one fetch_add each
RecordQueryStep(t) ==
    /\ is_some(threads)
    /\ Th.running[t].op = "record_query"
    /\ LET c == Th.running[t]
       IN \/ /\ c.at = "total"
             /\ metrics' = fetch_add(metrics, "total_queries", 1)
             /\ threads' = Some([Th EXCEPT !.running[t].at = "protocol"])
          \/ /\ c.at = "protocol"
             /\ metrics' = fetch_add(metrics,
                                     IF c.protocol = "Udp" THEN "udp_queries"
                                     ELSE "tcp_queries", 1)
             /\ threads' = Some(IF c.edns
                                THEN [Th EXCEPT !.running[t].at = "edns"]
                                ELSE returns(Th, t))
          \/ /\ c.at = "edns"
             /\ metrics' = fetch_add(metrics, "edns_queries", 1)
             /\ threads' = Some(returns(Th, t))
    /\ UNCHANGED <<dnsVars, limiterVars, udpVars, tcpVars, located, listeners,
                   rw, parse, denial>>

\* record_response(rc): one fetch_add on the counter of rc, none for a code
\* without counter
RecordResponse(t) ==
    /\ is_some(threads)
    /\ Th.running[t].op = "record_response"
    /\ LET counter == response_counter(Th.running[t].rc)
       IN metrics' = IF is_some(counter)
                     THEN fetch_add(metrics, unwrap(counter), 1)
                     ELSE metrics
    /\ threads' = Some(returns(Th, t))
    /\ UNCHANGED <<dnsVars, limiterVars, udpVars, tcpVars, located, listeners,
                   rw, parse, denial>>

\* record_query_type: self.query_types.write() is granted
LockQueryTypes(t) ==
    /\ is_some(threads)
    /\ Th.running[t].op = "record_query_type"
    /\ Th.running[t].at = "lock"
    /\ Th.types_lock = ""
    /\ threads' = Some([Th EXCEPT !.running[t].at = "insert",
                                  !.types_lock = t])
    /\ UNCHANGED <<dnsVars, netVars, located, listeners, rw, parse, denial>>

\* record_query_type: the entry is counted and the guard dropped
CountQueryType(t) ==
    /\ is_some(threads)
    /\ Th.running[t].op = "record_query_type"
    /\ Th.running[t].at = "insert"
    /\ metrics' = [metrics EXCEPT
                      !.query_types = count_type(@, Th.running[t].qtype)]
    /\ threads' = Some([returns(Th, t) EXCEPT !.types_lock = ""])
    /\ UNCHANGED <<dnsVars, limiterVars, udpVars, tcpVars, located, listeners,
                   rw, parse, denial>>

\* get_snapshot: its next load. The loads are separate relaxed loads; the
\* clone of query_types waits for the write guard; the counters no thread
\* here writes complete the snapshot with the last load
SnapshotLoad ==
    /\ is_some(threads)
    /\ LET snap == IF is_some(Th.snapshot) THEN unwrap(Th.snapshot)
                   ELSE [at |-> 1,
                         quiet |-> \A t \in MetricThreads :
                                       Th.running[t].op = "idle",
                         returned |-> Th.returned,
                         values |-> <<>>]
       IN /\ snap.at <= Len(SnapshotOrder)
          /\ SnapshotOrder[snap.at] = "query_types" => Th.types_lock = ""
          /\ threads' = Some([Th EXCEPT !.snapshot = Some(
                 [snap EXCEPT
                    !.at = @ + 1,
                    !.values =
                       [f \in DOMAIN snap.values \cup {SnapshotOrder[snap.at]}
                          |-> IF f = SnapshotOrder[snap.at] THEN metrics[f]
                              ELSE snap.values[f]]])])
    /\ UNCHANGED <<dnsVars, netVars, located, listeners, rw, parse, denial>>

NextMetrics ==
    \/ \E t \in MetricThreads, c \in MetricCalls : MetricCall(t, c)
    \/ \E t \in MetricThreads : RecordQueryStep(t)
    \/ \E t \in MetricThreads : RecordResponse(t)
    \/ \E t \in MetricThreads : LockQueryTypes(t)
    \/ \E t \in MetricThreads : CountQueryType(t)
    \/ SnapshotLoad

SpecMetrics == InitMetrics /\ [][NextMetrics]_vars

(***************************** NSEC denial of existence ********************)
\* the labels of the names compared, in the order of their octets
LabelOrder == <<"a", "b", "c", "ex">>
A_EX == <<"a", "ex">>
B_A_EX == <<"b", "a", "ex">>

RECURSIVE cmp_labels(_, _)
\* Name::cmp: the labels are compared from the root down, the first
\* difference decides, and of two names that agree the shorter is less
cmp_labels(a, b) ==
    IF a = <<>> /\ b = <<>> THEN 0
    ELSE IF a = <<>> THEN -1
    ELSE IF b = <<>> THEN 1
    ELSE LET rank(l) == CHOOSE i \in DOMAIN LabelOrder : LabelOrder[i] = l
             l == rank(a[Len(a)])
             r == rank(b[Len(b)])
         IN IF l < r THEN -1
            ELSE IF l > r THEN 1
            ELSE cmp_labels(SubSeq(a, 1, Len(a) - 1),
                            SubSeq(b, 1, Len(b) - 1))

Name_lt(a, b) == cmp_labels(a, b) < 0

\* covers_name: owner < query < next, or around the end of the zone
covers_name(owner, query_name, next_name) ==
    IF Name_lt(owner, next_name)
    THEN Name_lt(owner, query_name) /\ Name_lt(query_name, next_name)
    ELSE Name_lt(owner, query_name) \/ Name_lt(query_name, next_name)

\* the loop that gives up at the first NSEC record that proves nothing
RECURSIVE validate_nsec_loop_FirstOnly(_, _, _)
validate_nsec_loop_FirstOnly(query_name, query_type, rest) ==
    IF rest = <<>> THEN Err("No NSEC record proves non-existence")
    ELSE IF rest[1].rtype # "NSEC"
    THEN validate_nsec_loop_FirstOnly(query_name, query_type, Tail(rest))
    ELSE IF \/ covers_name(rest[1].name, query_name, rest[1].rdata.next)
            \/ /\ query_name = rest[1].name
               /\ query_type \notin rest[1].rdata.types
    THEN Ok(None)
    ELSE Err("No NSEC record proves non-existence")

RECURSIVE validate_nsec_loop(_, _, _)
\* for nsec in nsec_records { ... }
validate_nsec_loop(query_name, query_type, rest) ==
    IF rest = <<>> THEN Err("No NSEC record proves non-existence")
    ELSE LET nsec == rest[1]
         IN IF nsec.rtype # "NSEC"
            THEN validate_nsec_loop(query_name, query_type, Tail(rest))
            ELSE IF covers_name(nsec.name, query_name, nsec.rdata.next)
            THEN Ok(None)
            ELSE IF /\ query_name = nsec.name
                    /\ query_type \notin nsec.rdata.types
            THEN Ok(None)
            ELSE validate_nsec_loop(query_name, query_type, Tail(rest))

validate_nsec_denial(query_name, query_type, nsec_records) ==
    validate_nsec_loop(query_name, query_type, nsec_records)

\* the records given to it: NSEC records between the names of a zone, with
\* and without A in their type bitmap, and a record that is no NSEC
NsecNames == {EX, A_EX, C_EX}
NsecPool ==
    {from_rdata(o, RecordTtl, "NSEC", [next |-> n, types |-> ts]) :
        o \in NsecNames, n \in NsecNames, ts \in {{"A"}, {}}}
    \cup {from_rdata(A_EX, RecordTtl, "A", <<"192.0.2.1">>)}
NsecSets == UNION {[1..n -> NsecPool] : n \in 0..MaxNsec}

InitDenial ==
    /\ zones = ZoneStore_new
    /\ serving = FALSE
    /\ query = None
    /\ response = None
    /\ calls = {}
    /\ limiter = None
    /\ now = 0
    /\ history = <<>>
    /\ metrics = Metrics_new
    /\ datagram = None
    /\ sent = <<>>
    /\ tcp_config = None
    /\ conn = None
    /\ located = None
    /\ listeners = None
    /\ rw = None
    /\ parse = None
    /\ threads = None
    /\ \E query_name \in NsecNames \cup {B_A_EX}, query_type \in {"A", "MX"},
          nsec_records \in NsecSets :
            denial = Some([query_name |-> query_name,
                           query_type |-> query_type,
                           nsec_records |-> nsec_records,
                           result |-> None])

Denial == unwrap(denial)

ValidateNsecDenial ==
    /\ is_some(denial)
    /\ is_none(Denial.result)
    /\ denial' = Some([Denial EXCEPT !.result =
            Some(validate_nsec_denial(Denial.query_name, Denial.query_type,
                                      Denial.nsec_records))])
    /\ UNCHANGED <<dnsVars, netVars, located, listeners, rw, parse, threads>>

NextDenial == ValidateNsecDenial

SpecDenial == InitDenial /\ [][NextDenial]_vars

(***************************** the TCP server, responses past 64 KiB *******)
\* a zone whose TXT records fill more than a length prefix can announce:
\* two at one name that fit one by one, and one that fits no message
HugeRecords ==
    << from_rdata(EX, RecordTtl, "SOA", SOA_new(SoaOf(EX))),
       from_rdata(H_EX, RecordTtl, "TXT", <<"giant">>),
       from_rdata(H_EX, RecordTtl, "TXT", <<"vast">>),
       from_rdata(L_EX, RecordTtl, "TXT", <<"maximal">>) >>

HugeStores ==
    {add_zone(ZoneStore_new, add_records(Zone_new(EX, SoaOf(EX)),
                                         HugeRecords))}

HugeRequests ==
    { [Message_new EXCEPT !.id = 4660, !.queries = <<Query_query(n, "TXT")>>] :
        n \in {H_EX, L_EX} }
    \cup
    { [Message_new EXCEPT !.id = 4660,
                          !.queries = <<Query_query(n, "AXFR")>>] :
        n \in {EX, W_O} }

HugeBuffers ==
    {to_bytes(q) : q \in HugeRequests}
    \cup {b \in CutBuffers : b.len = 12}

HugeLengths == {b.len : b \in HugeBuffers}

InitTcpHuge ==
    /\ zones \in HugeStores
    /\ serving = TRUE
    /\ query = None
    /\ response = None
    /\ calls = {}
    /\ limiter = Some(RateLimiter_new(1, 0))
    /\ now = 0
    /\ history = <<>>
    /\ metrics = Metrics_new
    /\ datagram = None
    /\ sent = <<>>
    /\ tcp_config \in TcpConfigs
    /\ conn = None
    /\ located = None
    /\ listeners = None
    /\ rw = None
    /\ parse = None
    /\ threads = None
    /\ denial = None

NextTcpHuge ==
    \/ \E addr \in {"127.0.0.1"} : TcpAccept(addr)
    \/ \E msg_len \in HugeLengths : TcpReadLength(msg_len, None)
    \/ \E data \in HugeBuffers : TcpReadMessage(data)
    \/ \E fail \in {None, Some(1)}, order \in Orders : TcpRespond(fail, order)
    \/ TcpReadFails("eof")
    \/ TcpIdleTimeout
    \/ TcpAdvance

SpecTcpHuge == InitTcpHuge /\ [][NextTcpHuge]_vars

(***************************** the rate limiter across a cleanup ***********)
\* a limiter whose clock ticks Hz times a second, asked by two addresses
\* before and after a quiet time of almost the cleanup interval
Hz == 2
QuietTicks == CleanupInterval * Hz - 1

InitCleanup ==
    /\ zones = ZoneStore_new
    /\ serving = TRUE
    /\ query = None
    /\ response = None
    /\ calls = {}
    /\ limiter \in {Some(RateLimiter_ticking(n, 0, Hz)) : n \in 1..MaxQps}
    /\ now = 0
    /\ history = <<>>
    /\ metrics = Metrics_new
    /\ datagram = None
    /\ sent = <<>>
    /\ tcp_config = None
    /\ conn = None
    /\ located = None
    /\ listeners = None
    /\ rw = None
    /\ parse = None
    /\ threads = None
    /\ denial = None

\* a tick passes, or the quiet time; the clock is read within MaxTime
\* ticks of the start and of the end of the quiet time
Elapse(ticks) ==
    /\ now + ticks <= QuietTicks + MaxTime
    /\ now + ticks <= MaxTime \/ now + ticks >= QuietTicks
    /\ now' = now + ticks
    /\ UNCHANGED <<dnsVars, limiter, history, metrics, udpVars, tcpVars>>
    /\ UNCHANGED auxVars

NextCleanup ==
    \/ \E addr \in Addrs : CheckRateLimit(addr)
    \/ \E ticks \in {1, QuietTicks} : Elapse(ticks)

SpecCleanup == InitCleanup /\ [][NextCleanup]_vars

(***************************** the reload of the zone files ****************)
\* load_zones that leaves out the zones whose file does not parse
RECURSIVE load_zones_SkippingFailures(_, _)
skip_or_add(zone_configs, zone_store, zone) ==
    load_zones_SkippingFailures(
        Tail(zone_configs),
        IF zone.ok THEN add_zone(zone_store, zone.value) ELSE zone_store)

load_zones_SkippingFailures(zone_configs, zone_store) ==
    IF zone_configs = <<>> THEN Ok(zone_store)
    ELSE skip_or_add(zone_configs, zone_store,
                     parse_zone_file(Head(zone_configs).file,
                                     Head(zone_configs).name))

\* load_zones: the loop over config.zones; zone is what parse_zone_file
\* returned for the first of zone_configs, and the ? leaves the function
\* when that is an error
RECURSIVE load_zones(_, _)
load_zone(zone_configs, zone_store, zone) ==
    IF ~zone.ok THEN Err("Failed to load zone")
    ELSE load_zones(Tail(zone_configs), add_zone(zone_store, zone.value))

load_zones(zone_configs, zone_store) ==
    IF zone_configs = <<>> THEN Ok(zone_store)
    ELSE load_zone(zone_configs, zone_store,
                   parse_zone_file(Head(zone_configs).file,
                                   Head(zone_configs).name))

\* the zone files as they may be on disk when a reload reads them: whole,
\* with one more record, without an SOA record, with a value that does not
\* parse
FilesOnDisk ==
    { <<SoaOnOneLine>>,
      <<SoaOnOneLine, RecordLine(Word("w"), <<>>, <<IN_>>, ADDR)>>,
      <<RecordLine(Word("w"), <<>>, <<IN_>>, ADDR)>>,
      <<SoaOnOneLine, RecordLine(Word("w"), <<>>, <<IN_>>, BAD_ADDR)>> }

\* config.zones, two zones, with the files found on disk at a reload
ZoneConfigs ==
    { <<[name |-> EX, file |-> f], [name |-> O, file |-> g]>> :
        f \in FilesOnDisk,
        g \in {h \in FilesOnDisk : Len(h) = 2 /\ h[1] = SoaOnOneLine} }

\* the zones of config.zones whose file parse_zone_file refuses
refused(zone_configs) ==
    {i \in DOMAIN zone_configs :
        ~parse_zone_file(zone_configs[i].file, zone_configs[i].name).ok}

\* what load_zones(&config) returns, and the zone files that were refused,
\* for each state of the files on disk
Loaded == [c \in ZoneConfigs |-> load_zones(c, ZoneStore_new)]
Refused == [c \in ZoneConfigs |-> refused(c)]

\* main: the server runs only if load_zones succeeded
InitSighup ==
    /\ zones \in {l.value : l \in {m \in {Loaded[c] : c \in ZoneConfigs} : m.ok}}
    /\ serving = TRUE
    /\ query = None
    /\ response = None
    /\ calls = {}
    /\ limiter = None
    /\ now = 0
    /\ history = <<>>
    /\ metrics = Metrics_new
    /\ datagram = None
    /\ sent = <<>>
    /\ tcp_config = None
    /\ conn = None
    /\ located = None
    /\ listeners = None
    /\ rw = Some([lock |-> RwLock_new,
                  tasks |-> [t \in Tasks |-> Task_new],
                  reload |-> [pc |-> "idle", signals |-> 0,
                              refused |-> {}, new_store |-> None,
                              failures |-> 0]])
    /\ parse = None
    /\ threads = None
    /\ denial = None

\* handle_signals, SIGHUP, once load_zones has returned loaded: either the
\* error is logged or the write guard is asked for
reload_zones(r, loaded, refused_files) ==
    IF ~loaded.ok
    THEN [r EXCEPT !.reload.signals = @ + 1,
                   !.reload.refused = refused_files,
                   !.reload.failures = @ + 1]
    ELSE IF can_write(r.lock)
    THEN [r EXCEPT !.reload.signals = @ + 1,
                   !.reload.refused = refused_files,
                   !.lock.writer = TRUE,
                   !.reload.pc = "writing",
                   !.reload.new_store = Some(loaded.value)]
    ELSE [r EXCEPT !.reload.signals = @ + 1,
                   !.reload.refused = refused_files,
                   !.lock.queue = Append(@, Reloader),
                   !.reload.pc = "queued",
                   !.reload.new_store = Some(loaded.value)]

\* handle_signals takes a SIGHUP with the zone files as zone_configs has
\* them
Sighup(zone_configs) ==
    /\ Rw.reload.pc = "idle"
    /\ Rw.reload.signals < MaxReloads
    /\ rw' = Some(reload_zones(Rw, Loaded[zone_configs],
                               Refused[zone_configs]))
    /\ UNCHANGED <<dnsVars, netVars, located, listeners, parse, threads, denial>>

\* *store = new_store, and the write guard is dropped
StoreLoaded ==
    /\ Rw.reload.pc = "writing"
    /\ zones' = unwrap(Rw.reload.new_store)
    /\ rw' = Some([Rw EXCEPT
                      !.lock = wake([@ EXCEPT !.writer = FALSE,
                                              !.version = @ + 1]),
                      !.reload.pc = "idle",
                      !.reload.new_store = None])
    /\ UNCHANGED <<serving, query, response, calls>>
    /\ UNCHANGED <<netVars, located, listeners, parse, threads, denial>>

NextSighup ==
    \/ \E t \in Tasks, kind \in {"query", "axfr"} : ReadLock(t, kind)
    \/ \E t \in Tasks : ReadGranted(t)
    \/ \E t \in Tasks : Lookup(t)
    \/ \E t \in Tasks : ReadUnlock(t)
    \/ \E zone_configs \in ZoneConfigs : Sighup(zone_configs)
    \/ WriteGranted
    \/ StoreLoaded

SpecSighup == InitSighup /\ [][NextSighup]_vars

(***************************** properties **********************************)
\* vocabulary of the properties: the request just answered and its response
Answered == is_some(query) /\ is_some(response)
Req == unwrap(query)
Resp == unwrap(response)

\* a standard query: opcode QUERY, a first question, and not a zone transfer
Standard ==
    /\ Answered
    /\ Req.op_code = "Query"
    /\ Req.queries # <<>>
    /\ Head(Req.queries).query_type # "AXFR"

QName == Head(Req.queries).name
QType == Head(Req.queries).query_type

\* no served zone has an origin that is a suffix of the name
NoServedOrigin(name) == \A o \in DOMAIN zones : ~zone_of(o, name)

\* a standard query for a name that find_zone places in a served zone
InZone == Standard /\ is_some(find_zone(zones, QName))
Z == unwrap(find_zone(zones, QName))

\* the SOA record a negative answer carries, field by field
IsZoneSoa(rec, zone) ==
    /\ rec.name = zone.origin
    /\ rec.rtype = "SOA"
    /\ rec.ttl = zone.soa.minimum
    /\ rec.rdata = <<zone.soa.mname, zone.soa.rname, zone.soa.serial,
                     zone.soa.refresh, zone.soa.retry, zone.soa.expire,
                     zone.soa.minimum>>

\* C1: every response mirrors its request: same id, same opcode, QR set,
\* RA clear, and the request's first question (when it has one) echoed as
\* the response's first question.
C1_ResponseMirrorsRequest ==
    Answered =>
        /\ Resp.id = Req.id
        /\ Resp.op_code = Req.op_code
        /\ Resp.message_type = "Response"
        /\ Resp.recursion_available = FALSE
        /\ Req.queries # <<>> =>
              /\ Resp.queries # <<>>
              /\ Head(Resp.queries) = Head(Req.queries)

\* C2: a standard query for a name under no served origin is answered
\* REFUSED with AA clear and empty answer and authority sections.
C2_RefusedOutsideServedZones ==
    (Standard /\ NoServedOrigin(QName)) =>
        /\ Resp.response_code = "Refused"
        /\ Resp.authoritative = FALSE
        /\ Resp.answers = <<>>
        /\ Resp.name_servers = <<>>

C2_Witness ==
    /\ Standard
    /\ DOMAIN zones # {}
    /\ NoServedOrigin(QName)
    /\ Resp.response_code = "Refused"

\* C3: a standard query for a name of a served zone that does not exist in
\* it, with no wildcard holding records of the query type or a CNAME, is
\* answered NXDOMAIN with AA set, no answers, and the zone SOA (TTL =
\* soa.minimum) as the only authority record.
C3_NxDomainWithSoa ==
    (/\ InZone
     /\ ~contains_name(Z, QName)
     /\ is_none(lookup_wildcard(Z, QName, QType))
     /\ is_none(lookup_wildcard(Z, QName, "CNAME"))) =>
        /\ Resp.response_code = "NXDomain"
        /\ Resp.authoritative = TRUE
        /\ Resp.answers = <<>>
        /\ Len(Resp.name_servers) = 1
        /\ IsZoneSoa(Resp.name_servers[1], Z)

\* an NXDOMAIN given although the zone holds a wildcard (of another type)
C3_Witness ==
    /\ InZone
    /\ ~contains_name(Z, QName)
    /\ contains_name(Z, STAR_EX)
    /\ is_none(lookup_wildcard(Z, QName, QType))
    /\ is_none(lookup_wildcard(Z, QName, "CNAME"))
    /\ Resp.response_code = "NXDomain"

\* C4: a standard query for a name that exists in its zone with neither
\* records of the query type nor a CNAME is answered NOERROR with AA set,
\* no answers, and exactly one authority record, the zone SOA with TTL =
\* soa.minimum (NODATA).
C4_NoDataWithSoa ==
    (/\ InZone
     /\ contains_name(Z, QName)
     /\ is_none(lookup(Z, QName, QType))
     /\ is_none(lookup(Z, QName, "CNAME"))) =>
        /\ Resp.response_code = "NoError"
        /\ Resp.authoritative = TRUE
        /\ Resp.answers = <<>>
        /\ Len(Resp.name_servers) = 1
        /\ IsZoneSoa(Resp.name_servers[1], Z)

C4_Witness ==
    /\ InZone
    /\ contains_name(Z, QName)
    /\ is_none(lookup(Z, QName, QType))
    /\ is_none(lookup(Z, QName, "CNAME"))
    /\ Resp.response_code = "NoError"
    /\ Len(Resp.name_servers) = 1

\* C5: when the query name exists and has records of the query type, no
\* wildcard is consulted and the answer section is exactly those records,
\* also when a wildcard at an ancestor holds records of that type.
C5_ExactMatchWins ==
    (/\ InZone
     /\ contains_name(Z, QName)
     /\ is_some(lookup(Z, QName, QType))) =>
        /\ "lookup_wildcard" \notin calls
        /\ Resp.answers = Z.records[QName][QType]

\* the exact name answered while a wildcard of the same type covers it
C5_Witness ==
    /\ InZone
    /\ contains_name(Z, QName)
    /\ is_some(lookup(Z, QName, QType))
    /\ is_some(lookup_wildcard(Z, QName, QType))
    /\ Resp.answers # <<>>

\* the lookup process_query makes for the query name: exact when the name
\* exists, through the wildcards otherwise
Found(rtype) ==
    IF contains_name(Z, QName) THEN lookup(Z, QName, rtype)
    ELSE lookup_wildcard(Z, QName, rtype)

\* C6: an answer synthesized from a wildcard for a name that does not exist
\* carries the query name as the owner of every answer record, with NOERROR
\* and AA set.
C6_WildcardOwnerRewritten ==
    (/\ InZone
     /\ ~contains_name(Z, QName)
     /\ is_some(lookup_wildcard(Z, QName, QType))) =>
        /\ Resp.response_code = "NoError"
        /\ Resp.authoritative = TRUE
        /\ Resp.answers # <<>>
        /\ \A i \in DOMAIN Resp.answers : Resp.answers[i].name = QName

\* the names strictly between d and name, d being a proper suffix of name
Between(d, name) ==
    {SubSeq(name, Len(name) - k + 1, Len(name)) :
        k \in (Len(d) + 1)..(Len(name) - 1)}

\* a name exists in the zone as an owner or as an empty non-terminal
ExistsInZone(zone, m) ==
    \E owner \in DOMAIN zone.records : zone_of(m, owner)

\* the wildcard *.d may not answer for name: a closer name exists
Blocked(zone, d, name) == \E m \in Between(d, name) : ExistsInZone(zone, m)

\* C7: lookup_wildcard never returns the records of *.d when a name strictly
\* between d and the query name exists in the zone, and no answer record
\* comes from such a wildcard.
C7_NoSynthesisBelowExistingName ==
    (InZone /\ ~contains_name(Z, QName)) =>
        /\ \A t \in {QType, "CNAME"} :
              LET r == lookup_wildcard(Z, QName, t)
              IN is_some(r) => ~Blocked(Z, Tail(unwrap(r)[1].name), QName)
        /\ \A i \in DOMAIN Resp.answers :
              LET owner == Resp.answers[i].name
              IN (owner # <<>> /\ Head(owner) = "*") =>
                    ~Blocked(Z, Tail(owner), QName)

\* C8: when the query name has no records of the query type but one CNAME
\* (exact, or through a wildcard when the name does not exist), the answer
\* section is that CNAME followed by the records of (target, qtype) of the
\* same zone; the target is not chased further and a target outside the
\* zone, or absent from it, adds nothing; the response code is NOERROR.
C8_SingleHopInZone ==
    (/\ InZone
     /\ is_none(Found(QType))
     /\ is_some(Found("CNAME"))
     /\ Len(unwrap(Found("CNAME"))) = 1) =>
        LET cname == unwrap(Found("CNAME"))[1]
            target == cname.rdata
            at_target == lookup(Z, target, QType)
            target_records ==
                IF zone_of(Z.origin, target) /\ is_some(at_target)
                THEN unwrap(at_target) ELSE <<>>
        IN /\ Resp.response_code = "NoError"
           /\ Resp.answers = <<cname>> \o target_records

\* C9: the authority section holds the apex NS records exactly when the
\* response is NOERROR with a non-empty answer section (and the apex has NS
\* records), and then nothing else; no other response carries an NS record.
C9_ApexNsOnlyOnPositiveAnswer ==
    Answered =>
        IF Resp.response_code = "NoError" /\ Resp.answers # <<>>
        THEN /\ InZone
             /\ Resp.name_servers =
                    (IF Z.origin \in DOMAIN Z.records
                        /\ "NS" \in DOMAIN Z.records[Z.origin]
                     THEN Z.records[Z.origin]["NS"] ELSE <<>>)
        ELSE \A i \in DOMAIN Resp.name_servers :
                Resp.name_servers[i].rtype # "NS"

\* a positive answer whose authority section is the apex NS set
C9_Witness ==
    /\ Answered
    /\ Resp.response_code = "NoError"
    /\ Resp.answers # <<>>
    /\ Resp.name_servers # <<>>
    /\ \A i \in DOMAIN Resp.name_servers : Resp.name_servers[i].rtype = "NS"

\* C10: a request with an OPT gets, whatever the response code, a response
\* with an OPT of payload size 4096, version 0 and the request's DO flag; a
\* request without OPT gets a response without OPT.
C10_OptEchoedOnEveryResponse ==
    Answered =>
        IF is_some(Req.edns)
        THEN /\ is_some(Resp.edns)
             /\ unwrap(Resp.edns).max_payload = 4096
             /\ unwrap(Resp.edns).version = 0
             /\ unwrap(Resp.edns).dnssec_ok = unwrap(Req.edns).dnssec_ok
        ELSE is_none(Resp.edns)

\* C11: a request whose opcode is not QUERY is answered NOT_IMPLEMENTED with
\* empty answer and authority sections and without any zone-store operation,
\* whatever its questions are (none, one, several, AXFR).
C11_NotImpForOtherOpcodes ==
    (Answered /\ Req.op_code # "Query") =>
        /\ Resp.response_code = "NotImp"
        /\ Resp.answers = <<>>
        /\ Resp.name_servers = <<>>
        /\ calls = {}

\* an UPDATE carrying an AXFR question for a served zone
C11_Witness ==
    /\ Answered
    /\ Req.op_code # "Query"
    /\ Req.queries # <<>>
    /\ Head(Req.queries).query_type = "AXFR"
    /\ is_some(find_zone(zones, Head(Req.queries).name))
    /\ Resp.response_code = "NotImp"

\* vocabulary of the rate-limiter properties: the k-th call made, and the
\* earlier calls from the same address younger than age at the k-th call
Limit == unwrap(limiter).max_qps
EarlierCalls(k, age) ==
    {j \in 1..(k - 1) :
        /\ history[j].addr = history[k].addr
        /\ history[k].at - history[j].at < age}
EarlierAllowed(k, age) == {j \in EarlierCalls(k, age) : history[j].allowed}

\* C20: with max_qps = N, a call made when N allowed calls from its address
\* are less than 1 s old is denied; a call made when the address has made no
\* call for 1 s or more is allowed when N > 0; with N = 0 every call is
\* denied.
C20_WindowOfOneSecond ==
    \A k \in DOMAIN history :
        /\ Cardinality(EarlierAllowed(k, Window)) >= Limit
               => ~history[k].allowed
        /\ (Limit > 0 /\ EarlierCalls(k, Window) = {}) => history[k].allowed
        /\ Limit = 0 => ~history[k].allowed

\* C20 as stated: the N allowed calls may be up to 1 s old, 1 s included
C20_AsStated ==
    \A k \in DOMAIN history :
        /\ Cardinality(EarlierAllowed(k, Window + 1)) >= Limit
               => ~history[k].allowed
        /\ (Limit > 0 /\ EarlierCalls(k, Window) = {}) => history[k].allowed
        /\ Limit = 0 => ~history[k].allowed

\* an address fills its limit of two, is denied at once, and is allowed again
\* a second later
C20_Witness ==
    /\ Limit = 2
    /\ \E k \in DOMAIN history :
          /\ k >= 4
          /\ \A j \in (k - 3)..k : history[j].addr = history[k].addr
          /\ history[k - 3].allowed /\ history[k - 2].allowed
          /\ ~history[k - 1].allowed
          /\ history[k - 1].at - history[k - 3].at < Window
          /\ history[k].at - history[k - 1].at >= Window
          /\ history[k].allowed

\* vocabulary of the UDP properties: a datagram has been handled; the
\* payload size its sender advertised; a message without its record
\* sections; the messages on the wire
UdpHandled == is_some(datagram)
Decoded == is_some(query)
Processed == is_some(response)
ClientMaxPayload ==
    IF Decoded /\ is_some(Req.edns) THEN unwrap(Req.edns).max_payload
    ELSE 512
Stripped(msg) ==
    [msg EXCEPT !.answers = <<>>, !.name_servers = <<>>, !.additionals = <<>>]
Larger(a, b) == IF a >= b THEN a ELSE b
SentMsg(i) == unwrap(from_bytes(sent[i]))

\* C12: every datagram sent in reply to a client that advertised payload M
\* (512 without OPT) is at most max(M, size of the response without its
\* record sections) octets long, and a reply that lost records has TC set.
C12_UdpSizeLaw ==
    (UdpHandled /\ Processed) =>
        \A i \in DOMAIN sent :
            /\ sent[i].len
                   <= Larger(ClientMaxPayload, WireLen(Stripped(Resp)))
            /\ Sections(SentMsg(i)) # Sections(Resp)
                   => SentMsg(i).truncation

\* the message the truncation cascade leaves of resp under the limit max
Cascade(resp, max) ==
    LET tc == [resp EXCEPT !.truncation = TRUE]
        no_answers == [tc EXCEPT !.answers = <<>>]
        no_authority == [no_answers EXCEPT !.name_servers = <<>>]
    IN IF WireLen(no_answers) <= max THEN no_answers
       ELSE IF WireLen(no_authority) <= max THEN no_authority
       ELSE Stripped(tc)

\* C13: a processed query gets exactly one datagram.  When the encoded
\* response exceeds max_udp (the client's OPT payload size, 512 without
\* OPT) the datagram has TC set and is the response without its answers, or
\* else also without its authority, or else also without its additional
\* records, the first of these that fits (the last one in any case), with
\* the id, response code and question of the response; a response that
\* fits is sent as it is, TC clear.
C13_TruncationCascade ==
    (UdpHandled /\ Processed) =>
        /\ Len(sent) = 1
        /\ IF WireLen(Resp) > ClientMaxPayload
           THEN /\ SentMsg(1) = Cascade(Resp, ClientMaxPayload)
                /\ SentMsg(1).truncation
                /\ SentMsg(1).id = Resp.id
                /\ SentMsg(1).response_code = Resp.response_code
                /\ SentMsg(1).queries = Resp.queries
           ELSE /\ SentMsg(1) = Resp
                /\ ~SentMsg(1).truncation

\* what C14 asks for an input that does not decode: one FORM_ERR response
\* with the input's first two octets as id, or nothing below two octets
FormErrOrNothing(data, msgs) ==
    IF data.len >= 2
    THEN /\ Len(msgs) = 1
         /\ msgs[1].message_type = "Response"
         /\ msgs[1].response_code = "FormErr"
         /\ msgs[1].id = data.header[1] * 256 + data.header[2]
    ELSE msgs = <<>>

\* the datagram in hand was refused by the rate limiter before any decoding
UdpRateLimited ==
    /\ UdpHandled
    /\ ~Decoded
    /\ sent # <<>>
    /\ SentMsg(1).response_code = "Refused"

\* the messages written whole on the connection for the request in hand
WrittenMsgs ==
    [i \in 1..Len(SelectSeq(Conn.written, LAMBDA f : is_some(f.data))) |->
        unwrap(from_bytes(unwrap(Conn.written[i].data)))]

\* the task is done with a message it read, and no write failed
TcpAnswered ==
    /\ is_some(conn)
    /\ is_some(Conn.msg_buf)
    /\ Conn.pc \in {"length", "closed"}
    /\ Conn.exit # "write_error"

\* C14: an input that cannot be decoded gets, on UDP and on TCP, a FORM_ERR
\* response carrying its first two octets as id when it has two octets,
\* and no response at all when it has fewer.
C14_FormErrOrSilence ==
    /\ (/\ UdpHandled
         /\ is_none(from_bytes(unwrap(datagram).data))
         /\ ~UdpRateLimited)
           => FormErrOrNothing(unwrap(datagram).data,
                               [i \in DOMAIN sent |-> SentMsg(i)])
    /\ (TcpAnswered /\ is_none(from_bytes(unwrap(Conn.msg_buf))))
           => FormErrOrNothing(unwrap(Conn.msg_buf), WrittenMsgs)

\* vocabulary of the zone-transfer property: a transfer that ran to its
\* end, its question, the zone found for it, the records the stream carries
\* and the records the zone holds
Transferred == is_some(conn) /\ Conn.exit = "axfr"
AxfrQuestion == Head(Req.queries)
AxfrZone == unwrap(find_zone(zones, AxfrQuestion.name))
Carried(i) == WrittenMsgs[i].answers[1]
Between1(n) == 2..(n - 1)
ZoneRecords(zone) ==
    UNION {{zone.records[k[1]][k[2]][i] :
               i \in DOMAIN zone.records[k[1]][k[2]]} :
              k \in RecordKeys(zone)}

\* C15: a zone transfer that ran to its end wrote whole length-prefixed
\* messages of one answer record each, all with the id of the query, AA set
\* and the query's question; the first and the last record are the zone's
\* SOA record, the records in between are the records of the zone, each
\* exactly once; and the connection is closed.
C15_AxfrStream ==
    Transferred =>
        LET n == Len(Conn.written)
        IN /\ Conn.pc = "closed"
           /\ n >= 2
           /\ \A i \in 1..n :
                 /\ is_some(Conn.written[i].data)
                 /\ Conn.written[i].prefix = unwrap(Conn.written[i].data).len
                 /\ Len(WrittenMsgs[i].answers) = 1
                 /\ WrittenMsgs[i].name_servers = <<>>
                 /\ WrittenMsgs[i].id = Req.id
                 /\ WrittenMsgs[i].message_type = "Response"
                 /\ WrittenMsgs[i].authoritative
                 /\ WrittenMsgs[i].queries = <<AxfrQuestion>>
           /\ IsZoneSoa(Carried(1), AxfrZone)
           /\ Carried(n) = Carried(1)
           /\ \A r \in ZoneRecords(AxfrZone) :
                 Cardinality({i \in Between1(n) : Carried(i) = r}) = 1
           /\ \A i \in Between1(n) : Carried(i) \in ZoneRecords(AxfrZone)

\* the transfer of a zone read from a file, asked for by a name inside it
C15_Witness ==
    /\ Transferred
    /\ AxfrQuestion.name # AxfrZone.origin
    /\ "SOA" \in DOMAIN AxfrZone.records[AxfrZone.origin]
    /\ Len(Conn.written) = 6
    /\ Carried(2).rtype = "A"

\* the query cap the configuration asks for
QueryCap ==
    IF is_some(tcp_config) THEN unwrap(tcp_config).max_queries_per_connection
    ELSE 100

\* C16: a connection is served at most max_queries_per_connection queries,
\* 100 when the configuration has no tcp section: no more requests are read
\* and no more responses written than that, and a connection that has had
\* that many queries handled is closed, for that reason, before anything
\* else is read from it.
C16_QueryCap ==
    is_some(conn) =>
        /\ Conn.queries_handled <= QueryCap
        /\ Conn.requests_read <= QueryCap
        /\ Conn.responses_written <= QueryCap
        /\ Conn.queries_handled = QueryCap =>
              /\ Conn.pc = "closed"
              /\ Conn.exit = "max_queries"
              /\ Conn.requests_read = QueryCap

\* the hundredth query of a connection to a server without a tcp section
C16_Witness ==
    /\ is_some(conn)
    /\ is_none(tcp_config)
    /\ Conn.responses_written = 100
    /\ Conn.exit = "max_queries"

\* how long the task has been awaiting bytes of its client
Silent == now - Conn.waiting_since

\* C17: a connection whose client stays silent for the idle timeout is
\* closed with a timeout recorded, before the length prefix and after it:
\* no connection is still awaiting bytes once its client has been silent
\* for longer than the idle timeout, and a connection closed for silence
\* has recorded one timeout.
C17_IdleConnectionsClosed ==
    /\ Awaiting => Silent <= idle_timeout_secs(tcp_config)
    /\ (is_some(conn) /\ Conn.exit = "timeout") =>
          /\ Conn.timeouts_recorded = 1
          /\ metrics.tcp_connection_timeouts >= 1

\* C18: however the task of a connection ends, it has recorded the
\* connection-closed metric exactly once, with the number of queries it
\* handled.
C18_ClosedRecordedOnce ==
    (is_some(conn) /\ Conn.pc = "closed") =>
        Conn.closed_recorded = <<Conn.queries_handled>>

\* the request in hand, as the task decoded it
InHand == from_bytes(unwrap(Conn.msg_buf))

\* C19: on one connection the response to a request is written whole,
\* length prefix and message, before the next request is read: a task
\* that is about to read, or is reading, a request has answered every
\* request it read, the last one with one whole message carrying that
\* request's id, and a task holding a request has answered all but that
\* one.
C19_ResponsesInRequestOrder ==
    is_some(conn) =>
        /\ Conn.pc \in {"length", "message"} =>
              Conn.responses_written = Conn.requests_read
        /\ Conn.pc = "respond" =>
              Conn.responses_written = Conn.requests_read - 1
        /\ (Conn.pc = "length" /\ Conn.requests_read > 0) =>
              /\ Len(Conn.written) = 1
              /\ is_some(Conn.written[1].data)
              /\ Conn.written[1].prefix = unwrap(Conn.written[1].data).len
              /\ is_some(InHand)
              /\ WrittenMsgs[1].id = unwrap(InHand).id
              /\ WrittenMsgs[1].queries = unwrap(InHand).queries

\* the second request of a connection in hand, after the first was answered
C19_Witness ==
    /\ is_some(conn)
    /\ Conn.pc = "respond"
    /\ Conn.requests_read = 2
    /\ Conn.responses_written = 1
    /\ is_some(query)
    /\ is_some(InHand)
    /\ unwrap(InHand).id # Req.id

\* the stored origins that are a suffix of, or equal to, the name asked
SuffixOrigins(name) == {o \in DOMAIN zones : zone_of(o, name)}

\* C23: find_zone(qname) returns the zone whose origin is the longest of
\* the stored origins that are a suffix of qname, and None only when no
\* stored origin is a suffix of qname.
C23_LongestSuffixMatch ==
    is_some(located) =>
        LET name == unwrap(located).name
            zone == unwrap(located).zone
        IN IF SuffixOrigins(name) = {} THEN is_none(zone)
           ELSE /\ is_some(zone)
                /\ unwrap(zone).origin \in SuffixOrigins(name)
                /\ \A o \in SuffixOrigins(name) :
                      num_labels(o) <= num_labels(unwrap(zone).origin)

\* the limiter holds, for addr, max_qps calls or more that are less than
\* one window old: the next call from addr is denied
Denied(addr) ==
    /\ is_some(limiter)
    /\ LET inner == unwrap(limiter)
           queries == IF addr \in DOMAIN inner.clients
                      THEN inner.clients[addr] ELSE <<>>
       IN Cardinality({i \in DOMAIN queries : now - queries[i] < Window})
             >= inner.max_qps

\* a REFUSED response and nothing else
IsRefused(msg) ==
    /\ msg.message_type = "Response"
    /\ msg.response_code = "Refused"
    /\ msg.answers = <<>>
    /\ msg.name_servers = <<>>

\* the step in which a UDP task handles a datagram that the limiter denies
UdpDeniedStep ==
    /\ is_none(datagram)
    /\ is_some(datagram')
    /\ Denied(unwrap(datagram').addr)

\* the step in which a TCP task, having read a valid length prefix, asks
\* the limiter and is denied
TcpDeniedStep ==
    /\ is_some(conn)
    /\ is_some(conn')
    /\ unwrap(conn).pc = "length"
    /\ unwrap(conn').exit \notin {"eof", "error", "timeout", "bad_length"}
    /\ unwrap(conn') # unwrap(conn)
    /\ Denied(unwrap(conn).addr)

\* C21: a query denied by the rate limiter, on UDP and on TCP, is answered
\* with a REFUSED response (when the send or write does not fail), does not
\* reach the query processor, and adds exactly one to the rate-limited
\* counter and nothing to the query counters.
C21_DeniedIsRefusedAndCounted ==
    [][ /\ UdpDeniedStep =>
            /\ sent' # <<>> =>
                  /\ Len(sent') = 1
                  /\ IsRefused(unwrap(from_bytes(sent'[1])))
            /\ query' = None /\ response' = None /\ calls' = {}
            /\ metrics' = [metrics EXCEPT !.rate_limited = @ + 1]
        /\ TcpDeniedStep =>
            /\ unwrap(conn').pc = "closed"
            /\ unwrap(conn').exit \in {"rate_limited", "write_error"}
            /\ unwrap(conn').exit = "rate_limited" =>
                  /\ Len(unwrap(conn').written) = 1
                  /\ is_some(unwrap(conn').written[1].data)
                  /\ IsRefused(unwrap(from_bytes(
                         unwrap(unwrap(conn').written[1].data))))
            /\ unwrap(conn').requests_read = unwrap(conn).requests_read
            /\ unwrap(conn').queries_handled = unwrap(conn).queries_handled
            /\ UNCHANGED <<query, response, calls>>
            /\ metrics' = [metrics EXCEPT !.rate_limited = @ + 1]
      ]_vars

\* a datagram was refused, and now a connection of the same client is
\* refused as well
C21_Witness ==
    /\ is_some(conn)
    /\ unwrap(conn).exit = "rate_limited"
    /\ metrics.rate_limited = 2
    /\ metrics.udp_queries = 1

\* the id a client put in the first two octets of a message
IdSent(data) == data.header[1] * 256 + data.header[2]

\* the connection in hand was refused by the rate limiter
TcpRateLimited == is_some(conn) /\ Conn.exit = "rate_limited"

\* C22: the REFUSED response to a rate-limited query carries the id of that
\* query: on UDP the id in the datagram, on TCP the id of the message the
\* client sent behind the length prefix, whichever message that is.
C22_RefusedCarriesQueryId ==
    /\ (UdpRateLimited /\ unwrap(datagram).data.len >= 2) =>
          SentMsg(1).id = IdSent(unwrap(datagram).data)
    /\ TcpRateLimited =>
          \A data \in TcpBuffers :
              (data.len = Conn.msg_len /\ data.len >= 2) =>
                  WrittenMsgs[1].id = IdSent(data)

\* C26: whatever fails in the task of a datagram or of a connection, or in
\* one recv_from or accept, the loops of run_udp and run_tcp keep running.
C26_ListenersSurvive ==
    is_some(listeners) =>
        /\ Loops.udp = "running"
        /\ Loops.tcp = "running"

\* after a task returned an error and an input did not decode, a datagram
\* is answered and a second connection was accepted
C26_Witness ==
    /\ is_some(listeners)
    /\ Loops.logged = 1
    /\ metrics.errors >= 1
    /\ is_some(datagram)
    /\ Processed
    /\ sent # <<>>
    /\ metrics.tcp_connections = 2

\* C24: all the store operations made for one query or zone transfer were
\* served by one version of the store, whatever reloads went on meanwhile.
C24_OneSnapshotPerQuery ==
    is_some(rw) =>
        \A t \in Tasks :
            \A i, j \in DOMAIN Rw.tasks[t].seen :
                Rw.tasks[t].seen[i].version = Rw.tasks[t].seen[j].version

\* a query answered from the old store although the store was swapped
\* since: the reload had to wait for it
C24_Witness ==
    /\ is_some(rw)
    /\ \E t \in Tasks :
          /\ Rw.tasks[t].kind = "query"
          /\ Rw.tasks[t].pc = "done"
          /\ Rw.tasks[t].seen[Len(QueryLookups)].version = 0
    /\ \E t \in Tasks :
          /\ Rw.tasks[t].pc = "done"
          /\ Rw.tasks[t].seen[1].version = 1

\* a task waits for its read guard behind the reload
BlockedByReload(t) ==
    /\ Rw.tasks[t].pc = "queued"
    /\ Rw.reload.pc = "queued"
    /\ t \notin Rw.lock.readers

\* C25: a reload that waits for the write lock keeps no query that arrives
\* meanwhile from reading the store, and the readers in flight finish on
\* the store they started with.
C25_ReloadNeverBlocksReaders ==
    is_some(rw) =>
        /\ \A t \in Tasks : ~BlockedByReload(t)
        /\ \A t \in Tasks :
              \A i \in DOMAIN Rw.tasks[t].seen :
                  Rw.tasks[t].seen[i].version = Rw.tasks[t].seen[1].version

(***************************** the zone-file parser: properties *************)
Parsed == is_some(parse) /\ is_some(Parser.result)
ParseResult == unwrap(Parser.result)

holds(line, tok) == \E i \in DOMAIN line : line[i] = tok

RECURSIVE Joined(_, _, _, _)
\* the logical lines of a file: a record runs from the line with "(" to the
\* first line with ")", that line itself included when it holds both
Joined(rest, result, current, open) ==
    IF rest = <<>>
    THEN IF open THEN Append(result, current) ELSE result
    ELSE LET line == strip_comment(rest[1])
             bare == remove_text(remove_text(line, "("), ")")
             opens == contains_text(line, "(")
             closes == contains_text(line, ")")
         IN IF (open \/ opens) /\ closes
            THEN Joined(Tail(rest), Append(result, current \o bare), <<>>,
                        FALSE)
            ELSE IF open \/ opens
            THEN Joined(Tail(rest), result, current \o bare, TRUE)
            ELSE Joined(Tail(rest),
                        IF line # <<>> THEN Append(result, line) ELSE result,
                        current, FALSE)

RECURSIVE Balanced(_, _)
\* every "(" is closed, no record is opened inside another, no ")" stands
\* outside a record
Balanced(rest, open) ==
    IF rest = <<>> THEN ~open
    ELSE LET line == strip_comment(rest[1])
             opens == contains_text(line, "(")
             closes == contains_text(line, ")")
         IN /\ ~(open /\ opens)
            /\ ~open /\ ~opens => ~closes
            /\ Balanced(Tail(rest), (open \/ opens) /\ ~closes)

\* C29: the preprocessor turns each parenthesized record, from the line with
\* "(" to the first line with ")" wherever the parentheses stand, into one
\* logical line without comments and parentheses, keeps every other
\* non-blank line as its own logical line, and merges nothing that follows
\* the closing parenthesis.
C29_ParenthesizedRecordJoined ==
    (Parsed /\ Balanced(Parser.content, FALSE))
        => unwrap(Parser.lines) = Joined(Parser.content, <<>>, <<>>, FALSE)

\* the TTL a record line gets: its own, else the $TTL before it, else 3600
TtlInForce(ttl, directives) ==
    IF ttl # <<>> THEN 60
    ELSE IF directives # <<>> THEN 300
    ELSE 3600

\* the file is an SOA, these directives and this record line, and the zone
\* made of it holds the record with this TTL
StoredWithTtl(directives, line, ttl) ==
    (Parsed /\ Parser.content = <<SoaOnOneLine>> \o directives \o <<line>>)
        => /\ ParseResult.ok
           /\ lookup(ParseResult.value, W_EX, "A")
                = Some(<<from_rdata(W_EX, ttl, "A", <<"192.0.2.1">>)>>)

\* C28: a record line NAME [TTL] [CLASS] TYPE RDATA is parsed into a stored
\* record whether or not the TTL and the class are present, and without a
\* TTL token the record gets the default TTL in force at its line: the $TTL
\* value, else 3600.
C28_EveryFormStored ==
    \A ttl \in {<<>>, <<TTL60>>}, class \in {<<>>, <<IN_>>},
       directives \in {<<>>, <<TtlLine>>} :
        StoredWithTtl(directives, RecordLine(Word("w"), ttl, class, ADDR),
                      TtlInForce(ttl, directives))

\* no line of the file is an SOA line with all its fields
NoSoaLine(content) ==
    \A i \in DOMAIN content :
        ~holds(strip_comment(content[i]), Word("SOA"))
        \/ content[i] = SoaTooShort

\* the records and directives of a file, each on one line
Records(content) == Joined(content, <<>>, <<>>, FALSE)

\* the file holds a complete SOA, written on one line or on several
CompleteSoa(content) ==
    \E i \in DOMAIN Records(content) : Records(content)[i] = SoaOnOneLine

\* every record and directive of the file is one whose fields all parse
EveryFieldParses(content) ==
    \A i \in DOMAIN Records(content) :
        Records(content)[i] \in
            {SoaOnOneLine, TtlLine, OriginLine,
             RecordLine(Fqdn("w.o.", W_O), <<>>, <<IN_>>, ADDR)}
            \cup RecordForms

\* an address, a TTL or a $TTL value that does not parse, outside comments
InvalidValue(content) ==
    \E i \in DOMAIN content :
        \/ holds(strip_comment(content[i]), BAD_ADDR)
        \/ holds(strip_comment(content[i]), TOO_BIG)
        \/ content[i] = BadTtlLine

NoSoaIsAnError == (Parsed /\ NoSoaLine(Parser.content)) => ~ParseResult.ok

InvalidValueIsAnError ==
    (Parsed /\ InvalidValue(Parser.content)) => ~ParseResult.ok

SoaAndValidFieldsGiveZone ==
    (/\ Parsed
     /\ Balanced(Parser.content, FALSE)
     /\ CompleteSoa(Parser.content)
     /\ EveryFieldParses(Parser.content))
        => ParseResult.ok

\* C27: parse_zone_file returns an error whenever the file holds no SOA
\* record (an empty file and an SOA line with too few fields included),
\* returns a Zone whenever an SOA was parsed and every fixed field parses,
\* and fails whenever an IP address, an integer or a $TTL value is invalid.
C27_ErrorOrZone ==
    /\ NoSoaIsAnError
    /\ SoaAndValidFieldsGiveZone
    /\ InvalidValueIsAnError

\* C30: in every Zone that parse_zone_file produces, the owner of every
\* stored record is the zone origin or a name within it, whatever the file
\* holds, $ORIGIN directives and absolute owner names included.
C30_OwnersWithinOrigin ==
    (Parsed /\ ParseResult.ok)
        => \A name \in DOMAIN ParseResult.value.records :
               zone_of(ParseResult.value.origin, name)

\* the SOA records a zone stores, each with its owner
StoredSoas(zone) ==
    {<<name, i>> \in (DOMAIN zone.records) \X (1..MaxLines) :
        /\ "SOA" \in DOMAIN zone.records[name]
        /\ i \in DOMAIN zone.records[name]["SOA"]}

\* C31: every Zone that parse_zone_file produces holds exactly one SOA
\* record, its owner is the zone origin and the zone's soa fields are those
\* of that record, whatever the file holds, several SOA lines or an SOA
\* line whose owner is not the origin included.
C31_OneSoaAtOrigin ==
    (Parsed /\ ParseResult.ok)
        => LET zone == ParseResult.value
           IN /\ Cardinality(StoredSoas(zone)) = 1
              /\ \A s \in StoredSoas(zone) :
                    /\ s[1] = zone.origin
                    /\ zone.records[s[1]]["SOA"][s[2]].rdata
                         = SOA_new(zone.soa)

(***************************** Metrics: properties **************************)
SnapshotTaken ==
    /\ is_some(threads)
    /\ is_some(Th.snapshot)
    /\ unwrap(Th.snapshot).at > Len(SnapshotOrder)
Snapshot == unwrap(Th.snapshot)

\* query_types[T] of a snapshot, 0 for a type without entry
TypeCount(types, qtype) ==
    IF qtype \in DOMAIN types THEN types[qtype] ELSE 0

\* C32: concurrent updates of the counters are never lost: once all the
\* record_query, record_response(rc) and record_query_type(T) calls made by
\* the threads have returned, a snapshot reports total_queries as the number
\* of record_query calls, the counter of rc as the number of
\* record_response(rc) calls and query_types[T] as the number of
\* record_query_type(T) calls.
C32_NoUpdateLost ==
    (SnapshotTaken /\ Snapshot.quiet)
        => /\ Snapshot.values.total_queries = Snapshot.returned.record_query
           /\ \A rc \in DOMAIN Snapshot.returned.record_response :
                 is_some(response_counter(rc))
                    => Snapshot.values[unwrap(response_counter(rc))]
                         = Snapshot.returned.record_response[rc]
           /\ \A t \in DOMAIN Snapshot.returned.record_query_type :
                 TypeCount(Snapshot.values.query_types, t)
                    = Snapshot.returned.record_query_type[t]

C32_Witness ==
    /\ SnapshotTaken
    /\ Snapshot.quiet
    /\ Snapshot.returned.record_query = 2
    /\ Snapshot.values.total_queries = 2
    /\ Snapshot.values.udp_queries = 1
    /\ Snapshot.values.tcp_queries = 1

\* C38: every snapshot, one taken while record_query calls are in progress
\* on other threads included, has total_queries = udp_queries + tcp_queries.
C38_TotalIsUdpPlusTcp ==
    SnapshotTaken
        => Snapshot.values.total_queries
             = Snapshot.values.udp_queries + Snapshot.values.tcp_queries

(***************************** NSEC denial: properties **********************)
Validated == is_some(denial) /\ is_some(Denial.result)

\* the NSEC record denies the name, or the type at its owner
Proves(nsec, query_name, query_type) ==
    /\ nsec.rtype = "NSEC"
    /\ \/ covers_name(nsec.name, query_name, nsec.rdata.next)
       \/ /\ nsec.name = query_name
          /\ query_type \notin nsec.rdata.types

\* C33: validate_nsec_denial(qname, qtype, nsec_set) succeeds if and only if
\* some NSEC record of the set, with owner O and next N, covers qname
\* (O < qname < N when O < N, qname > O or qname < N otherwise) or has
\* O = qname and no qtype in its type bitmap; otherwise, and for an empty
\* set, it returns an error.
C33_DenialIffSomeNsecProves ==
    Validated
        => (unwrap(Denial.result).ok
              <=> \E i \in DOMAIN Denial.nsec_records :
                      Proves(Denial.nsec_records[i], Denial.query_name,
                             Denial.query_type))

C33_Witness ==
    /\ Validated
    /\ unwrap(Denial.result).ok
    /\ Len(Denial.nsec_records) = 2
    /\ ~Proves(Denial.nsec_records[1], Denial.query_name, Denial.query_type)
    /\ Denial.nsec_records[2].rtype = "NSEC"
    /\ Denial.nsec_records[2].name = C_EX
    /\ Denial.nsec_records[2].rdata.next = A_EX
    /\ Denial.query_name = EX

\* C34: every message written on a TCP connection (a response, the REFUSED
\* of the rate limiter, a FORMERR, each message of a zone transfer) comes
\* after two octets that hold, big-endian, the exact number of octets of the
\* message, whatever the size of the message the encoder produced.
C34_PrefixIsMessageLength ==
    is_some(conn) =>
        \A i \in DOMAIN Conn.written :
            is_some(Conn.written[i].data) =>
                /\ Conn.written[i].prefix = unwrap(Conn.written[i].data).len
                /\ Conn.written[i].prefix =
                       WireLen(unwrap(from_bytes(unwrap(Conn.written[i].data))))

\* a response whose two TXT answers take more than 65535 octets together:
\* the encoder wrote the first and set TC
C34_Witness ==
    /\ is_some(conn)
    /\ is_some(response)
    /\ Len(unwrap(response).answers) = 2
    /\ WireLen(unwrap(response)) > u16_MAX
    /\ Len(Conn.written) = 1
    /\ is_some(Conn.written[1].data)
    /\ WrittenMsgs[1].truncation
    /\ Len(WrittenMsgs[1].answers) = 1
    /\ Conn.written[1].prefix > 30000

\* vocabulary of the denial property: the timestamps the limiter holds for
\* an address, how often an instant occurs in them, the calls of an address
\* allowed at an instant, and the oldest allowed call in the window of the
\* k-th call
Held(addr) ==
    IF addr \in DOMAIN unwrap(limiter).clients
    THEN unwrap(limiter).clients[addr] ELSE <<>>
HeldAt(addr, t) == Cardinality({i \in DOMAIN Held(addr) : Held(addr)[i] = t})
AllowedAt(addr, t) ==
    {j \in DOMAIN history :
        history[j].addr = addr /\ history[j].at = t /\ history[j].allowed}
Oldest(k) ==
    CHOOSE t \in {history[j].at : j \in EarlierAllowed(k, Window)} :
        \A j \in EarlierAllowed(k, Window) : t <= history[j].at

\* C35: a denied call records no timestamp. The limiter holds for every
\* address at most max_qps timestamps, each the instant of an allowed call
\* of that address; and after a denial the first call the address makes once
\* the oldest allowed call of the denial's window is 1 s old or older is
\* allowed, however many denied calls were made in between.
C35_DeniedLeavesNoTimestamp ==
    /\ \A addr \in Addrs :
          /\ Len(Held(addr)) <= Limit
          /\ \A t \in 0..MaxTime + 1 :
                HeldAt(addr, t) <= Cardinality(AllowedAt(addr, t))
    /\ \A i, k \in DOMAIN history :
          (/\ i < k
           /\ history[i].addr = history[k].addr
           /\ ~history[i].allowed
           /\ Limit > 0
           /\ history[k].at - Oldest(i) >= Window
           /\ \A j \in (i + 1)..(k - 1) :
                 history[j].addr = history[i].addr
                     => history[j].at - Oldest(i) < Window)
              => history[k].allowed

\* an address fills its limit of one, is denied twice in the same second,
\* and is allowed at its first call a second after the allowed one
C35_Witness ==
    /\ Limit = 1
    /\ Len(history) = 4
    /\ \A j \in 1..4 : history[j].addr = history[1].addr
    /\ history[1].allowed
    /\ ~history[2].allowed /\ ~history[3].allowed
    /\ history[3].at = history[1].at
    /\ history[4].at = history[1].at + Window
    /\ history[4].allowed
    /\ Held(history[1].addr) = <<history[4].at>>

\* vocabulary of the cleanup property: a limiter that never cleans up, the
\* limiter it is after the first k calls of a history, the answers it
\* gives, and the timestamps of a client still inside the window at t
check_never_cleaning(inner, addr, t) ==
    LET entry == IF addr \in DOMAIN inner.clients
                 THEN inner.clients[addr] ELSE <<>>
        queries == SelectSeq(entry, LAMBDA ts : t - ts < inner.window)
        allowed == Len(queries) < inner.max_qps
    IN [inner |-> [inner EXCEPT !.clients =
                      [a \in DOMAIN inner.clients \cup {addr} |->
                          IF a = addr
                          THEN IF allowed THEN Append(queries, t) ELSE queries
                          ELSE inner.clients[a]]],
        allowed |-> allowed]

RECURSIVE NeverCleaned(_, _)
NeverCleaned(h, k) ==
    IF k = 0 THEN [unwrap(limiter) EXCEPT !.clients = <<>>]
    ELSE check_never_cleaning(NeverCleaned(h, k - 1),
                              h[k].addr, h[k].at).inner

SameAnswers(h) ==
    \A k \in DOMAIN h :
        h[k].allowed =
            check_never_cleaning(NeverCleaned(h, k - 1),
                                 h[k].addr, h[k].at).allowed

InWindow(inner, addr, t) ==
    IF addr \in DOMAIN inner.clients
    THEN SelectSeq(inner.clients[addr], LAMBDA ts : t - ts < inner.window)
    ELSE <<>>

CleanedUp ==
    /\ history' # history
    /\ unwrap(limiter').last_cleanup # unwrap(limiter).last_cleanup

\* C36: cleanup cannot be observed. Every call is answered as a limiter that
\* never cleans up answers it; and a call that runs the cleanup forgets
\* exactly the clients without a timestamp younger than 1 s and leaves every
\* other client its timestamps younger than 1 s.
C36_CleanupIsInvisible ==
    [][history' # history =>
          /\ SameAnswers(history')
          /\ CleanedUp =>
                \A addr \in Addrs \ {history'[Len(history')].addr} :
                    /\ addr \in DOMAIN unwrap(limiter').clients
                           <=> InWindow(unwrap(limiter), addr, now) # <<>>
                    /\ InWindow(unwrap(limiter), addr, now) # <<>> =>
                           unwrap(limiter').clients[addr]
                               = InWindow(unwrap(limiter), addr, now)]_vars

\* the cleanup has run at a call of one address, has forgotten nobody it
\* should keep: the other address, allowed a tick before, is denied a tick
\* after at a limit of one
C36_Witness ==
    /\ Limit = 1
    /\ Len(history) = 4
    /\ unwrap(limiter).last_cleanup = history[3].at
    /\ history[1].at = 0
    /\ history[2].at = history[3].at - 1
    /\ history[3].addr # history[2].addr
    /\ history[1].addr = history[3].addr
    /\ history[4].addr = history[2].addr
    /\ history[4].at = history[3].at
    /\ history[2].allowed /\ history[3].allowed
    /\ ~history[4].allowed

\* vocabulary of the authority property: the query a datagram carried
Asked == unwrap(from_bytes(unwrap(datagram).data))

\* C37: a response has AA set only if the server hosts a zone that contains
\* the query name: whatever the type of the first question, a zone transfer
\* included, the response sent to a query whose name lies in no served zone
\* has AA clear.
C37_AuthoritativeOnlyInsideZones ==
    (/\ is_some(datagram)
     /\ is_some(from_bytes(unwrap(datagram).data))
     /\ Asked.queries # <<>>
     /\ is_none(find_zone(zones, Head(Asked.queries).name)))
        => \A i \in DOMAIN sent :
              ~unwrap(from_bytes(sent[i])).authoritative

\* vocabulary of the reload property: a step in which the signal handler
\* took a SIGHUP and parse_zone_file refused one of the zone files
RefusedReload ==
    /\ unwrap(rw').reload.signals = Rw.reload.signals + 1
    /\ unwrap(rw').reload.refused # {}

\* C39: a reload whose zone loading fails leaves the served store as it
\* was: the store behind the lock, the lock itself and the tasks holding or
\* awaiting its guards are untouched and the handler awaits the next
\* signal, so that queries go on being answered from the old store; and the
\* store changes only in a reload in which every zone file was parsed.
C39_FailedReloadKeepsStore ==
    [][/\ RefusedReload =>
            /\ zones' = zones
            /\ unwrap(rw').lock = Rw.lock
            /\ unwrap(rw').tasks = Rw.tasks
            /\ unwrap(rw').reload.pc = "idle"
            /\ unwrap(rw').reload.new_store = None
       /\ zones' # zones => Rw.reload.refused = {}]_vars

\* the second zone file of the second reload was refused while a query
\* held its guard: the query made all its lookups in the store of the first
\* reload, which is still the one served
C39_Witness ==
    /\ Rw.reload.signals = 2
    /\ Rw.reload.failures = 1
    /\ Rw.reload.refused = {2}
    /\ Rw.reload.pc = "idle"
    /\ Rw.lock.version = 1
    /\ \E t \in Tasks :
          /\ Rw.tasks[t].pc = "done"
          /\ Rw.tasks[t].kind = "query"
          /\ \A i \in DOMAIN Rw.tasks[t].seen : Rw.tasks[t].seen[i].version = 1
    /\ O \in DOMAIN zones

====
